---- MODULE Spec2Model ----
(***************************************************************************)
(* Model of the aircraft depot scheduling script                           *)
(* src/Depo_Sch_AMARG_enhanced_v7.1.py (class AircraftScheduler).          *)
(*                                                                         *)
(* Text is modelled as a sequence of one-character strings, so that        *)
(* substring tests, replace(), upper(), strftime() and date parsing are    *)
(* computed character by character.  A pandas Timestamp is modelled by its *)
(* day count (time of day is not modelled: every instant is a midnight).   *)
(* Optional values are tagged records: None, NaT, NaN, Ts(n), Str(s),      *)
(* IntV(n), FloatV(n).                                                     *)
(***************************************************************************)
EXTENDS Integers, Sequences, FiniteSets, TLC

VARIABLES pc, arg, out, df, df_maf, df_bb, now, buno_i, loop,
          maf_546_events, slep_events, maf_546_projections,
          future_df, combined_df

vars == <<pc, arg, out, df, df_maf, df_bb, now, buno_i, loop,
          maf_546_events, slep_events, maf_546_projections,
          future_df, combined_df>>

(***************************************************************************)
(* Values                                                                  *)
(***************************************************************************)
None == [k |-> "None"]
NaT == [k |-> "NaT"]
NaN == [k |-> "NaN"]
Ts(n) == [k |-> "ts", ord |-> n]
Str(s) == [k |-> "str", s |-> s]
IntV(n) == [k |-> "int", n |-> n]
FloatV(n) == [k |-> "float", n |-> n]

\* pd.isna / pd.notna on a scalar
IsNa(v) == v.k \in {"None", "NaT", "NaN"}
NotNa(v) == ~IsNa(v)

(***************************************************************************)
(* Text                                                                    *)
(***************************************************************************)
DigitChars == <<"0", "1", "2", "3", "4", "5", "6", "7", "8", "9">>

IsDigit(c) == \E i \in 1..10 : DigitChars[i] = c

DigitVal(c) == (CHOOSE i \in 1..10 : DigitChars[i] = c) - 1

\* str(n) of a non-negative integer
RECURSIVE IntStr(_)
IntStr(n) == IF n < 10 THEN <<DigitChars[n + 1]>>
             ELSE IntStr(n \div 10) \o <<DigitChars[(n % 10) + 1]>>

\* '%04d' and '%02d' as strftime pads them
Pad(n, w) == LET s == IntStr(n)
             IN [i \in 1..(IF Len(s) < w THEN w - Len(s) ELSE 0) |-> "0"] \o s

UpperChar(c) ==
    CASE c = "a" -> "A" [] c = "b" -> "B" [] c = "c" -> "C" [] c = "d" -> "D"
      [] c = "e" -> "E" [] c = "f" -> "F" [] c = "g" -> "G" [] c = "h" -> "H"
      [] c = "i" -> "I" [] c = "j" -> "J" [] c = "k" -> "K" [] c = "l" -> "L"
      [] c = "m" -> "M" [] c = "n" -> "N" [] c = "o" -> "O" [] c = "p" -> "P"
      [] c = "q" -> "Q" [] c = "r" -> "R" [] c = "s" -> "S" [] c = "t" -> "T"
      [] c = "u" -> "U" [] c = "v" -> "V" [] c = "w" -> "W" [] c = "x" -> "X"
      [] c = "y" -> "Y" [] c = "z" -> "Z" [] OTHER -> c

\* str.upper()
Upper(s) == [i \in 1..Len(s) |-> UpperChar(s[i])]

\* sub in s
Contains(s, sub) ==
    \E i \in 1..(Len(s) - Len(sub) + 1) : SubSeq(s, i, i + Len(sub) - 1) = sub

ReplaceMut(s, a, b) ==
    [i \in 1..Len(s) |->
        IF s[i] = a /\ (\A j \in 1..(i - 1) : s[j] # a) THEN b ELSE s[i]]

\* s.replace(a, b) for one-character a and b: every occurrence is replaced
Replace(s, a, b) == [i \in 1..Len(s) |-> IF s[i] = a THEN b ELSE s[i]]

\* s.strip() for the blank character
RECURSIVE Strip(_)
Strip(s) == IF s = <<>> THEN s
            ELSE IF Head(s) = " " THEN Strip(Tail(s))
            ELSE IF s[Len(s)] = " " THEN Strip(SubSeq(s, 1, Len(s) - 1))
            ELSE s

\* str(v) as astype(str) and str() give it: str(None) = 'None', str(nan) = 'nan',
\* a whole float prints with '.0'
StrOf(v) == CASE v.k = "str" -> v.s
              [] v.k = "int" -> IntStr(v.n)
              [] v.k = "float" -> IntStr(v.n) \o <<".", "0">>
              [] v.k = "None" -> <<"N", "o", "n", "e">>
              [] v.k = "NaN" -> <<"n", "a", "n">>
              [] OTHER -> <<"N", "a", "T">>

(***************************************************************************)
(* Calendar: the fields of a Timestamp and its arithmetic.  Day 0 is       *)
(* 0000-03-01 of the proleptic Gregorian calendar.                         *)
(***************************************************************************)
ToOrdinal(y, m, d) ==
    LET yy == IF m <= 2 THEN y - 1 ELSE y
        era == yy \div 400
        yoe == yy % 400
        mp == IF m > 2 THEN m - 3 ELSE m + 9
        doy == ((153 * mp + 2) \div 5) + d - 1
        doe == yoe * 365 + (yoe \div 4) - (yoe \div 100) + doy
    IN era * 146097 + doe

Civil(z) ==
    LET era == z \div 146097
        doe == z % 146097
        yoe == (doe - (doe \div 1460) + (doe \div 36524) - (doe \div 146096)) \div 365
        doy == doe - (365 * yoe + (yoe \div 4) - (yoe \div 100))
        mp == (5 * doy + 2) \div 153
        d == doy - ((153 * mp + 2) \div 5) + 1
        m == IF mp < 10 THEN mp + 3 ELSE mp - 9
        y == yoe + era * 400 + (IF m <= 2 THEN 1 ELSE 0)
    IN [year |-> y, month |-> m, day |-> d]

IsLeap(y) == (y % 4 = 0 /\ y % 100 # 0) \/ y % 400 = 0

DaysInMonth(y, m) == IF m = 2 THEN (IF IsLeap(y) THEN 29 ELSE 28)
                     ELSE IF m \in {4, 6, 9, 11} THEN 30 ELSE 31

\* The range of a nanosecond Timestamp, in whole days:
\* 1677-09-22 .. 2262-04-11.
TsMinOrd == ToOrdinal(1677, 9, 22)
TsMaxOrd == ToOrdinal(2262, 4, 11)
InTsRange(n) == TsMinOrd <= n /\ n <= TsMaxOrd

\* Timestamp.strftime('%Y-%m-%d')
Strftime(t) == LET c == Civil(t.ord)
               IN Pad(c.year, 4) \o <<"-">> \o Pad(c.month, 2) \o <<"-">> \o Pad(c.day, 2)

\* The number written by the digits s[a..b]
RECURSIVE Num(_, _, _)
Num(s, a, b) == IF b < a THEN 0 ELSE 10 * Num(s, a, b - 1) + DigitVal(s[b])

\* pd.to_datetime(s, errors='coerce') on text: a 'YYYY-MM-DD' text that names a
\* day of the calendar inside the Timestamp range parses, anything else is NaT.
\* (The texts of the model are of this form or are no date at all.)
ToDatetime(s) ==
    IF /\ Len(s) = 10
       /\ s[5] = "-" /\ s[8] = "-"
       /\ \A i \in {1, 2, 3, 4, 6, 7, 9, 10} : IsDigit(s[i])
    THEN LET y == Num(s, 1, 4)
             m == Num(s, 6, 7)
             d == Num(s, 9, 10)
         IN IF /\ m \in 1..12
               /\ d >= 1 /\ d <= DaysInMonth(y, m)
               /\ InTsRange(ToOrdinal(y, m, d))
            THEN Ts(ToOrdinal(y, m, d))
            ELSE NaT
    ELSE NaT

\* Timestamp + pd.Timedelta(days=n): the sum, or "raise" when it leaves the
\* Timestamp range (OutOfBoundsDatetime)
AddDays(t, n) == IF InTsRange(t.ord + n) THEN Ts(t.ord + n) ELSE [k |-> "raise"]

AddMonthsMut(t, n) ==
    LET c == Civil(t.ord)
        total == (c.month - 1) + n
    IN Ts(ToOrdinal(c.year + (total \div 12), (total % 12) + 1, c.day))

\* Timestamp + pd.DateOffset(months=n): same day of the month, clipped to the
\* length of the target month
AddMonths(t, n) ==
    LET c == Civil(t.ord)
        total == (c.month - 1) + n
        y2 == c.year + (total \div 12)
        m2 == (total % 12) + 1
        dim == DaysInMonth(y2, m2)
        d2 == IF c.day < dim THEN c.day ELSE dim
    IN Ts(ToOrdinal(y2, m2, d2))

(***************************************************************************)
(* Fiscal calendar                                                         *)
(***************************************************************************)
\* The value `date` holds when the return statement is reached, or "ret_none"
\* for the early return: text is parsed (NaT when it does not parse); NaT is
\* no pd.Timestamp but is a datetime, so it passes both isinstance tests
\* unchanged.
FiscalCoerce(date) ==
    IF IsNa(date) THEN [k |-> "ret_none"]
    ELSE IF date.k = "str" THEN ToDatetime(date.s)
    ELSE date

\* date.year, date.month: the fields of NaT are nan
YearOf(t) == IF t.k = "ts" THEN IntV(Civil(t.ord).year) ELSE NaN
MonthOf(t) == IF t.k = "ts" THEN IntV(Civil(t.ord).month) ELSE NaN

\* a >= n, a <= n on a number or nan: every comparison with nan is False
Ge(a, n) == a.k = "int" /\ a.n >= n
Le(a, n) == a.k = "int" /\ a.n <= n

FiscalYearMut(date) ==
    LET t == FiscalCoerce(date)
    IN IF t.k = "ret_none" THEN None
       ELSE IF Ge(MonthOf(t), 11)
            THEN (IF YearOf(t).k = "int" THEN IntV(YearOf(t).n + 1) ELSE NaN)
            ELSE YearOf(t)

calculate_fiscal_year(date) ==
    LET t == FiscalCoerce(date)
    IN IF t.k = "ret_none" THEN None
       ELSE IF Ge(MonthOf(t), 10)
            THEN (IF YearOf(t).k = "int" THEN IntV(YearOf(t).n + 1) ELSE NaN)
            ELSE YearOf(t)

FiscalQuarterMut(date) ==
    LET t == FiscalCoerce(date)
    IN IF t.k = "ret_none" THEN None
       ELSE IF Ge(MonthOf(t), 10) THEN IntV(1)
       ELSE IF Le(MonthOf(t), 3) THEN IntV(2)
       ELSE IF Le(MonthOf(t), 7) THEN IntV(3)
       ELSE IntV(4)

calculate_fiscal_quarter(date) ==
    LET t == FiscalCoerce(date)
    IN IF t.k = "ret_none" THEN None
       ELSE IF Ge(MonthOf(t), 10) THEN IntV(1)
       ELSE IF Le(MonthOf(t), 3) THEN IntV(2)
       ELSE IF Le(MonthOf(t), 6) THEN IntV(3)
       ELSE IntV(4)

\* row.get(col, default)
Get(row, col, default) == IF col \in DOMAIN row THEN row[col] ELSE default

\* The row with column BUNO_key set to key
WithKey(row, key) ==
    [c \in DOMAIN row \cup {"BUNO_key"} |-> IF c = "BUNO_key" THEN Str(key) ELSE row[c]]

(***************************************************************************)
(* Configuration section                                                   *)
(***************************************************************************)
PROJECTION_END_YEAR == 2052
PMI_1_2_INTERVAL == 42
PMI_2_1_INTERVAL == 42
DAY_546_OFFSET == 21
DAY_546_INTERVAL == 546
max_iterations == 100

\* pd.Timestamp(datetime(PROJECTION_END_YEAR, 12, 31))
end_date == Ts(ToOrdinal(PROJECTION_END_YEAR, 12, 31))

PMI == <<"P", "M", "I">>
AMARG == <<"A", "M", "A", "R", "G">>
REBASE == <<"R", "E", "B", "A", "S", "E">>

(***************************************************************************)
(* pd.DataFrame(list of dicts): the columns are the union of the keys, a   *)
(* missing cell is NaN, and a column that holds whole numbers and missing  *)
(* cells becomes a float column.                                           *)
(***************************************************************************)
Columns(rows) == UNION {DOMAIN rows[i] : i \in 1..Len(rows)}

\* A column's cell after type inference over the whole column
Inferred(cells, i) ==
    IF /\ \E j \in 1..Len(cells) : IsNa(cells[j])
       /\ \E j \in 1..Len(cells) : cells[j].k \in {"int", "float"}
       /\ \A j \in 1..Len(cells) : IsNa(cells[j]) \/ cells[j].k \in {"int", "float"}
    THEN (IF IsNa(cells[i]) THEN NaN ELSE FloatV(cells[i].n))
    ELSE cells[i]

NumericColumns == {"BUNO", "FY", "QTR"}

DataFrame(rows) ==
    LET filled == [i \in 1..Len(rows) |->
                      [c \in Columns(rows) |->
                          IF c \in DOMAIN rows[i] THEN rows[i][c] ELSE NaN]]
    IN [i \in 1..Len(rows) |->
           [c \in Columns(rows) |->
               IF c \in NumericColumns
               THEN Inferred([j \in 1..Len(rows) |-> filled[j][c]], i)
               ELSE filled[i][c]]]

(***************************************************************************)
(* Step 2: analyze_maf_546_events                                          *)
(***************************************************************************)
WUC_546 == <<"0", "3", "0", "0", "0", "0", "P">>
WC_020 == <<"0", "2", "0">>
WC_20 == <<"2", "0">>
TEXT_546 == <<"5", "4", "6">>

Is546RowMut(row) ==
    LET wuc_value == Strip(StrOf(Get(row, "WUC", Str(<<>>))))
        work_center_value == Strip(StrOf(Get(row, "Work_Center", Str(<<>>))))
    IN /\ wuc_value = WUC_546
       /\ work_center_value = WC_020 \/ work_center_value = WC_20

\* The three criteria of a 546-day event
Is546Row(row) ==
    LET wuc_value == Strip(StrOf(Get(row, "WUC", Str(<<>>))))
        work_center_value == Strip(StrOf(Get(row, "Work_Center", Str(<<>>))))
        system_reason == Upper(StrOf(Get(row, "System_Reason_Description", Str(<<>>))))
    IN /\ wuc_value = WUC_546
       /\ work_center_value = WC_020 \/ work_center_value = WC_20
       /\ Contains(system_reason, TEXT_546)

date_columns_priority ==
    <<"Received_Date_Time", "Received_Date", "In_Work_Date", "Comp_Date_Time", "Comp_Date">>

\* The date column col of the row gives a start date
GivesDate(row, col) ==
    /\ col \in DOMAIN row
    /\ NotNa(row[col])
    /\ Strip(StrOf(row[col])) # <<>>
    /\ NotNa(ToDatetime(Strip(StrOf(row[col]))))

DateSourceMut(row) ==
    IF \E n \in 1..5 : GivesDate(row, date_columns_priority[n])
    THEN CHOOSE n \in 1..5 : /\ GivesDate(row, date_columns_priority[n])
                             /\ \A l \in (n + 1)..5 : ~GivesDate(row, date_columns_priority[l])
    ELSE 0

\* The first column in priority order that gives a date, 0 when none does
DateSource(row) ==
    IF \E n \in 1..5 : GivesDate(row, date_columns_priority[n])
    THEN CHOOSE n \in 1..5 : /\ GivesDate(row, date_columns_priority[n])
                             /\ \A l \in 1..(n - 1) : ~GivesDate(row, date_columns_priority[l])
    ELSE 0

\* start_date_str: the date of that column as clean text, None when none parses
StartDateStr(row) ==
    IF DateSource(row) = 0 THEN None
    ELSE Str(Strftime(ToDatetime(Strip(StrOf(row[date_columns_priority[DateSource(row)]])))))

\* finish_date_str: the start date plus DAY_546_OFFSET days as text; the start
\* date itself when the sum raises
FinishDateStr(start_date_str) ==
    LET finish_parsed == AddDays(ToDatetime(start_date_str.s), DAY_546_OFFSET)
    IN IF finish_parsed.k = "raise" THEN start_date_str
       ELSE Str(Strftime(finish_parsed))

\* The event record of a qualifying row that has a start date
MafEvent(row) ==
    LET start_date_str == StartDateStr(row)
        system_reason == Upper(StrOf(Get(row, "System_Reason_Description", Str(<<>>))))
        buno == IF NotNa(Get(row, "Buno", None)) THEN IntV(row.Buno.n) ELSE None
        fiscal_year == calculate_fiscal_year(start_date_str)
        event == [BUNO |-> buno,
                  START_DATE |-> start_date_str,
                  FINISH_DATE |-> FinishDateStr(start_date_str),
                  TASK |-> Str(<<"5", "4", "6", "D", "A", "Y">>),
                  data_source |-> "maf_analysis",
                  WUC |-> Str(Strip(StrOf(Get(row, "WUC", Str(<<>>))))),
                  Work_Center |-> Str(Strip(StrOf(Get(row, "Work_Center", Str(<<>>))))),
                  System_Reason_Description |->
                      Get(row, "System_Reason_Description", Str(<<>>)),
                  JCN |-> Get(row, "Jcn", Str(<<>>)),
                  MCN |-> Get(row, "Mcn", Str(<<>>)),
                  FY |-> fiscal_year,
                  QTR |-> calculate_fiscal_quarter(start_date_str),
                  REBASE |-> Contains(system_reason, REBASE),
                  EVENT_546 |-> TRUE,
                  is_AMARG |-> FALSE,
                  Chart_Visibility |-> TRUE,
                  date_source_used |-> date_columns_priority[DateSource(row)]]
    IN IF buno.k = "int" /\ buno.n # 0 /\ fiscal_year.k = "int" /\ fiscal_year.n # 0
       THEN WithKey(event, IntStr(buno.n) \o <<"_">> \o IntStr(fiscal_year.n)
                             \o <<"_">> \o event.TASK.s)
       ELSE event

\* maf_546_findings after the rows of the frame, in order
RECURSIVE MafFindings(_)
MafFindings(frame) ==
    IF frame = <<>> THEN <<>>
    ELSE LET row == frame[Len(frame)]
             before == MafFindings(SubSeq(frame, 1, Len(frame) - 1))
         IN IF Is546Row(row) /\ StartDateStr(row) # None
            THEN Append(before, MafEvent(row))
            ELSE before

analyze_maf_546_events(frame) == DataFrame(MafFindings(frame))

(***************************************************************************)
(* Step 3: analyze_bumblebee_slep_events                                   *)
(***************************************************************************)
SLEP_THRESHOLDS == [SLEP_1 |-> 10000, SLEP_2 |-> 12000, SLEP_3 |-> 14000, MAX_LIFE |-> 16000]

base_slep_date == Ts(ToOrdinal(2020, 7, 1))

SlepLevelMut(flight_hours) ==
    IF flight_hours >= SLEP_THRESHOLDS.MAX_LIFE
    THEN [task |-> <<"M", "A", "X", "_", "A", "I", "R", "C", "R", "A", "F", "T", "_",
                     "L", "I", "F", "E">>, slep_duration |-> 180]
    ELSE IF flight_hours >= SLEP_THRESHOLDS.SLEP_3
    THEN [task |-> <<"S", "L", "E", "P", "_", "3">>, slep_duration |-> 90]
    ELSE IF flight_hours > SLEP_THRESHOLDS.SLEP_2
    THEN [task |-> <<"S", "L", "E", "P", "_", "2">>, slep_duration |-> 90]
    ELSE IF flight_hours >= SLEP_THRESHOLDS.SLEP_1
    THEN [task |-> <<"S", "L", "E", "P", "_", "1">>, slep_duration |-> 90]
    ELSE None

\* The task and the duration in days for the flight hours, None below SLEP_1
SlepLevel(flight_hours) ==
    IF flight_hours >= SLEP_THRESHOLDS.MAX_LIFE
    THEN [task |-> <<"M", "A", "X", "_", "A", "I", "R", "C", "R", "A", "F", "T", "_",
                     "L", "I", "F", "E">>, slep_duration |-> 180]
    ELSE IF flight_hours >= SLEP_THRESHOLDS.SLEP_3
    THEN [task |-> <<"S", "L", "E", "P", "_", "3">>, slep_duration |-> 90]
    ELSE IF flight_hours >= SLEP_THRESHOLDS.SLEP_2
    THEN [task |-> <<"S", "L", "E", "P", "_", "2">>, slep_duration |-> 90]
    ELSE IF flight_hours >= SLEP_THRESHOLDS.SLEP_1
    THEN [task |-> <<"S", "L", "E", "P", "_", "1">>, slep_duration |-> 90]
    ELSE None

\* int(buno): the number of a numeric cell or of a text of digits; any other
\* text raises ValueError
IntOf(buno) ==
    IF buno.k \in {"int", "float"} THEN IntV(buno.n)
    ELSE IF /\ buno.k = "str"
            /\ Strip(buno.s) # <<>>
            /\ \A i \in 1..Len(Strip(buno.s)) : IsDigit(Strip(buno.s)[i])
         THEN IntV(Num(Strip(buno.s), 1, Len(Strip(buno.s))))
         ELSE [k |-> "raise"]

\* The event of a row at counter value slep_counter
SlepEvent(row, slep_counter) ==
    LET level == SlepLevel(row.AI_Running_Total_Flight_Hours.n)
        start_date == AddDays(base_slep_date, 7 * (slep_counter * 2))
        finish_date == AddDays(start_date, level.slep_duration)
        fiscal_year == calculate_fiscal_year(start_date)
    IN [BUNO |-> IntOf(row.BUNO),
        START_DATE |-> Str(Strftime(start_date)),
        FINISH_DATE |-> Str(Strftime(finish_date)),
        TASK |-> Str(level.task),
        data_source |-> "BumbleBee",
        AI_Flight_Hours |-> row.AI_Running_Total_Flight_Hours,
        FY |-> fiscal_year,
        QTR |-> calculate_fiscal_quarter(start_date),
        REBASE |-> FALSE,
        EVENT_546 |-> FALSE,
        is_AMARG |-> FALSE,
        Chart_Visibility |-> TRUE,
        BUNO_key |-> Str(StrOf(row.BUNO) \o <<"_">> \o StrOf(fiscal_year)
                           \o <<"_">> \o level.task)]

\* The row reaches slep_counter += 1: both cells are present, the hours are a
\* number (a text raises TypeError in the first comparison) and reach SLEP_1
SlepRowCounts(row) ==
    /\ NotNa(Get(row, "BUNO", None))
    /\ NotNa(Get(row, "AI_Running_Total_Flight_Hours", IntV(0)))
    /\ Get(row, "AI_Running_Total_Flight_Hours", IntV(0)).k \in {"int", "float"}
    /\ SlepLevel(Get(row, "AI_Running_Total_Flight_Hours", IntV(0)).n) # None

\* slep_findings and slep_counter after the rows of the frame: the counter is
\* incremented before int(buno) is evaluated, so a row whose int(buno) raises
\* has taken a counter value and appends nothing
RECURSIVE SlepScan(_)
SlepScan(frame) ==
    IF frame = <<>> THEN [slep_findings |-> <<>>, slep_counter |-> 0]
    ELSE LET before == SlepScan(SubSeq(frame, 1, Len(frame) - 1))
             row == frame[Len(frame)]
         IN IF ~SlepRowCounts(row) THEN before
            ELSE [slep_findings |->
                      IF IntOf(row.BUNO).k = "raise" THEN before.slep_findings
                      ELSE Append(before.slep_findings,
                                  SlepEvent(row, before.slep_counter)),
                  slep_counter |-> before.slep_counter + 1]

SlepFindings(frame) == SlepScan(frame).slep_findings

analyze_bumblebee_slep_events(frame) ==
    IF frame = <<>> THEN <<>> ELSE DataFrame(SlepFindings(frame))

(***************************************************************************)
(* Step 4: generate_maf_546_projections                                    *)
(***************************************************************************)
\* The aircraft with a row that meets the three criteria
historical_546_aircraft(frame) ==
    {frame[i].Buno.n : i \in {j \in 1..Len(frame) :
                          Is546Row(frame[j]) /\ NotNa(Get(frame[j], "Buno", None))}}

ProjectionEvent(buno, projection_date) ==
    LET fiscal_year == calculate_fiscal_year(projection_date)
    IN [BUNO |-> IntV(buno),
        START_DATE |-> Str(Strftime(projection_date)),
        FINISH_DATE |-> Str(Strftime(AddDays(projection_date, DAY_546_OFFSET))),
        TASK |-> Str(<<"5", "4", "6", "D", "A", "Y", "_", "P", "R", "O", "J">>),
        data_source |-> "maf_projection",
        FY |-> fiscal_year,
        QTR |-> calculate_fiscal_quarter(projection_date),
        REBASE |-> FALSE,
        EVENT_546 |-> TRUE,
        is_AMARG |-> FALSE,
        Chart_Visibility |-> TRUE,
        BUNO_key |-> Str(IntStr(buno) \o <<"_">> \o StrOf(fiscal_year) \o <<"_">>
                           \o <<"5", "4", "6", "D", "A", "Y", "_", "P", "R", "O", "J">>)]

RECURSIVE ProjectionLoopMut(_, _)
ProjectionLoopMut(buno, projection_date) ==
    IF projection_date.ord < end_date.ord
    THEN LET next == AddDays(projection_date, DAY_546_INTERVAL)
         IN <<ProjectionEvent(buno, next)>> \o ProjectionLoopMut(buno, next)
    ELSE <<>>

\* The while loop of one aircraft, from projection_date
RECURSIVE ProjectionLoop(_, _)
ProjectionLoop(buno, projection_date) ==
    IF projection_date.ord < end_date.ord
    THEN LET next == AddDays(projection_date, DAY_546_INTERVAL)
         IN IF next.ord >= end_date.ord THEN <<>>
            ELSE <<ProjectionEvent(buno, next)>> \o ProjectionLoop(buno, next)
    ELSE <<>>

\* The orders in which a set may be iterated
Orders(S) == {p \in [1..Cardinality(S) -> S] : \A i, j \in DOMAIN p : i # j => p[i] # p[j]}

RECURSIVE ProjectionFindings(_, _)
ProjectionFindings(order, current_date) ==
    IF order = <<>> THEN <<>>
    ELSE ProjectionLoop(Head(order), current_date)
             \o ProjectionFindings(Tail(order), current_date)

\* generate_maf_546_projections with the aircraft set iterated in the given order
generate_maf_546_projections(frame, current_date, order) ==
    IF frame = <<>> THEN <<>> ELSE DataFrame(ProjectionFindings(order, current_date))

(***************************************************************************)
(* Step 5: process_depot_amarg_detection                                   *)
(***************************************************************************)
AmargFlagMut(row) == Contains(StrOf(Get(row, "SQD", Str(<<>>))), AMARG)

\* 'AMARG' in str(row.get('SQD', '')).upper()
AmargFlag(row) == Contains(Upper(StrOf(Get(row, "SQD", Str(<<>>)))), AMARG)

\* 'REBASE' in str(row.get('TASK', '')).upper()
RebaseFlag(row) == Contains(Upper(StrOf(Get(row, "TASK", Str(<<>>)))), REBASE)

\* The row with the four flag columns set
Tagged(row) ==
    [c \in DOMAIN row \cup {"REBASE", "EVENT_546", "is_AMARG", "Chart_Visibility"} |->
        CASE c = "REBASE" -> RebaseFlag(row)
          [] c = "EVENT_546" -> FALSE
          [] c = "is_AMARG" -> AmargFlag(row)
          [] c = "Chart_Visibility" -> TRUE
          [] OTHER -> row[c]]

process_depot_amarg_detection(frame) == [i \in 1..Len(frame) |-> Tagged(frame[i])]

(***************************************************************************)
(* Step 6: the PMI projection of one aircraft                              *)
(***************************************************************************)
FirstByStartDescMut(frame, idxs) ==
    LET dated == {i \in idxs : frame[i].START_DATE.k = "ts"}
    IN IF dated # {}
       THEN {i \in dated : \A j \in dated :
                 frame[i].START_DATE.ord <= frame[j].START_DATE.ord}
       ELSE idxs

\* The rows that sort_values('START DATE', ascending=False) may put first among
\* the rows idxs: one with the latest START DATE; rows without a START DATE
\* sort last.  The order of rows with equal dates is left open (the default
\* sort is not a stable one).
FirstByStartDesc(frame, idxs) ==
    LET dated == {i \in idxs : frame[i].START_DATE.k = "ts"}
    IN IF dated # {}
       THEN {i \in dated : \A j \in dated :
                 frame[j].START_DATE.ord <= frame[i].START_DATE.ord}
       ELSE idxs

\* The rows whose TASK is present and contains 'PMI' in upper case
PmiRows(frame) ==
    {i \in 1..Len(frame) :
        NotNa(frame[i].TASK) /\ Contains(Upper(StrOf(frame[i].TASK)), PMI)}

\* find_last_pmi_task: the values it may return
find_last_pmi_task(frame) ==
    IF PmiRows(frame) = {} THEN {None}
    ELSE {frame[i].TASK : i \in FirstByStartDesc(frame, PmiRows(frame))}

\* get_tms_for_buno: the values it may return
get_tms_for_buno(frame) ==
    IF \A i \in 1..Len(frame) : "TMS" \notin DOMAIN frame[i] THEN {None}
    ELSE LET valid == {i \in 1..Len(frame) : NotNa(frame[i].TMS)}
         IN IF valid = {} THEN {None}
            ELSE {frame[i].TMS : i \in FirstByStartDesc(frame, valid)}

NextPmiTaskMut(current_task) ==
    IF Contains(Upper(current_task), <<"1">>)
    THEN Replace(current_task, "1", "2")
    ELSE current_task

\* get_next_pmi_task
get_next_pmi_task(current_task) ==
    IF Contains(Upper(current_task), <<"1">>)
    THEN Replace(current_task, "1", "2")
    ELSE Replace(current_task, "2", "1")

\* max() of a set of day counts
MaxOf(S) == CHOOSE x \in S : \A y \in S : y <= x

\* get_most_recent_date: the latest START DATE or FINISH DATE, None without one
get_most_recent_date(frame) ==
    LET starts == {frame[i].START_DATE.ord : i \in {j \in 1..Len(frame) :
                        frame[j].START_DATE.k = "ts"}}
        finishes == {frame[i].FINISH_DATE.ord : i \in {j \in 1..Len(frame) :
                        "FINISH_DATE" \in DOMAIN frame[j] /\ frame[j].FINISH_DATE.k = "ts"}}
    IN IF starts \cup finishes = {} THEN None ELSE Ts(MaxOf(starts \cup finishes))

\* get_last_squadron: the values it may return
get_last_squadron(frame, last_date) ==
    LET at_last == {i \in 1..Len(frame) : frame[i].START_DATE = last_date}
        first_at_last == CHOOSE i \in at_last : \A j \in at_last : i <= j
        valid == {i \in 1..Len(frame) : NotNa(frame[i].SQD)}
    IN IF at_last # {} /\ NotNa(frame[first_at_last].SQD)
       THEN {frame[first_at_last].SQD}
       ELSE IF valid = {} THEN {None}
       ELSE {frame[i].SQD : i \in FirstByStartDesc(frame, valid)}

\* The record appended for the projected date next_date
FutureEvent(buno, tms, next_date, current_task) ==
    [BUNO |-> buno,
     TMS |-> tms,
     START_DATE |-> Str(Strftime(next_date)),
     FINISH_DATE |-> Str(Strftime(AddDays(next_date, DAY_546_OFFSET))),
     SQD |-> None,
     TASK |-> Str(current_task),
     FY |-> calculate_fiscal_year(next_date),
     QTR |-> calculate_fiscal_quarter(next_date),
     data_source |-> "depot_projection",
     REBASE |-> FALSE,
     EVENT_546 |-> FALSE,
     is_AMARG |-> FALSE,
     Chart_Visibility |-> TRUE]

LoopGoesOnMut(current_date, iteration_count) == current_date.ord < end_date.ord

\* The while condition of the generation loop
LoopGoesOn(current_date, iteration_count) ==
    current_date.ord < end_date.ord /\ iteration_count < max_iterations

PmiPassMut(st) ==
    LET interval == IF Contains(st.current_task, <<"1">>)
                    THEN PMI_1_2_INTERVAL ELSE PMI_2_1_INTERVAL - 6
        next_date == AddMonths(st.current_date, interval)
    IN IF next_date.ord >= end_date.ord THEN [k |-> "break"]
       ELSE [k |-> "loop",
             buno |-> st.buno,
             tms |-> st.tms,
             current_date |-> next_date,
             current_task |-> get_next_pmi_task(st.current_task),
             iteration_count |-> st.iteration_count + 1,
             event |-> FutureEvent(st.buno, st.tms, next_date, st.current_task)]

\* One pass through the body of the generation loop from the loop state st:
\* the state at the head of the next pass with the event appended, or "break"
PmiPass(st) ==
    LET interval == IF Contains(st.current_task, <<"1">>)
                    THEN PMI_1_2_INTERVAL ELSE PMI_2_1_INTERVAL
        next_date == AddMonths(st.current_date, interval)
    IN IF next_date.ord >= end_date.ord THEN [k |-> "break"]
       ELSE [k |-> "loop",
             buno |-> st.buno,
             tms |-> st.tms,
             current_date |-> next_date,
             current_task |-> get_next_pmi_task(st.current_task),
             iteration_count |-> st.iteration_count + 1,
             event |-> FutureEvent(st.buno, st.tms, next_date, st.current_task)]

\* The two AMARG tests: the derived squadron, then the is_AMARG column
AmargExcluded(frame, last_sqd) ==
    \/ /\ last_sqd.k = "str" /\ last_sqd.s # <<>>
       /\ Contains(Upper(StrOf(last_sqd)), AMARG)
    \/ \E i \in 1..Len(frame) : frame[i].is_AMARG

\* generate_future_events_enhanced up to the loop: the states in which it may
\* reach the head of the loop for the rows buno_df of aircraft buno, "return"
\* for an early return.  A frame without an SQD column raises in
\* get_last_squadron, which the handler turns into a return.
PmiSetup(buno, buno_df) ==
    LET last_date == get_most_recent_date(buno_df)
    IN { IF last_pmi_task = None \/ last_pmi_task.s = <<>> THEN [k |-> "return"]
         ELSE IF last_date = None THEN [k |-> "return"]
         ELSE IF \E i \in 1..Len(buno_df) : "SQD" \notin DOMAIN buno_df[i]
              THEN [k |-> "return"]
         ELSE IF AmargExcluded(buno_df, last_sqd) THEN [k |-> "return"]
         ELSE [k |-> "loop",
               buno |-> buno,
               tms |-> tms,
               current_date |-> last_date,
               current_task |-> get_next_pmi_task(last_pmi_task.s),
               iteration_count |-> 0] :
           last_pmi_task \in find_last_pmi_task(buno_df),
           tms \in get_tms_for_buno(buno_df),
           last_sqd \in (IF last_date = None
                           \/ \E i \in 1..Len(buno_df) : "SQD" \notin DOMAIN buno_df[i]
                         THEN {None} ELSE get_last_squadron(buno_df, last_date)) }

\* df['BUNO'].unique(): the aircraft ids in order of first appearance
RECURSIVE Unique(_)
Unique(ids) ==
    IF ids = <<>> THEN <<>>
    ELSE LET rest == Unique(SubSeq(ids, 1, Len(ids) - 1))
             x == ids[Len(ids)]
         IN IF \E i \in 1..Len(rest) : rest[i] = x THEN rest ELSE Append(rest, x)

unique_bunos(frame) == Unique([i \in 1..Len(frame) |-> frame[i].BUNO])

\* df[df['BUNO'] == buno]
RECURSIVE RowsOf(_, _)
RowsOf(frame, buno) ==
    IF frame = <<>> THEN <<>>
    ELSE IF Head(frame).BUNO = buno THEN <<Head(frame)>> \o RowsOf(Tail(frame), buno)
    ELSE RowsOf(Tail(frame), buno)

(***************************************************************************)
(* Steps 2 and 5 to 7 of run_processing                                         *)
(***************************************************************************)
AnalyzeMaf546Events ==
    /\ pc = "step2"
    /\ maf_546_events' = analyze_maf_546_events(df_maf)
    /\ pc' = "step3"
    /\ UNCHANGED <<arg, out, df, df_maf, df_bb, now, buno_i, loop, slep_events,
                   maf_546_projections, future_df, combined_df>>

ProcessDepotAmargDetection ==
    /\ pc = "step5"
    /\ df' = process_depot_amarg_detection(df)
    /\ buno_i' = 1
    /\ pc' = "step6"
    /\ UNCHANGED <<arg, out, loop, df_maf, df_bb, now, maf_546_events, slep_events,
                   maf_546_projections, future_df, combined_df>>

\* generate_future_events_enhanced is entered for the next aircraft and runs
\* to the head of its loop, or returns no events
EnterAircraft ==
    /\ pc = "step6"
    /\ loop = None
    /\ buno_i <= Len(unique_bunos(df))
    /\ LET buno == unique_bunos(df)[buno_i]
       IN \E st \in PmiSetup(buno, RowsOf(df, buno)) :
              IF st.k = "return"
              THEN loop' = None /\ buno_i' = buno_i + 1
              ELSE loop' = st /\ buno_i' = buno_i
    /\ UNCHANGED <<pc, arg, out, df, df_maf, df_bb, now, maf_546_events, slep_events,
                   maf_546_projections, future_df, combined_df>>

\* One test of the while condition and, when it holds, one pass of the body;
\* when the loop ends the events join all_future_events
PmiIterate ==
    /\ pc = "step6"
    /\ loop # None
    /\ IF LoopGoesOn(loop.current_date, loop.iteration_count)
          /\ PmiPass(loop).k = "loop"
       THEN /\ future_df' = Append(future_df, PmiPass(loop).event)
            /\ loop' = [c \in DOMAIN loop |-> PmiPass(loop)[c]]
            /\ buno_i' = buno_i
       ELSE /\ future_df' = future_df
            /\ loop' = None
            /\ buno_i' = buno_i + 1
    /\ UNCHANGED <<pc, arg, out, df, df_maf, df_bb, now, maf_546_events, slep_events,
                   maf_546_projections, combined_df>>

\* The loop is over: future_df is complete
CreateFutureFrame ==
    /\ pc = "step6"
    /\ loop = None
    /\ buno_i > Len(unique_bunos(df))
    /\ pc' = "step8"
    /\ UNCHANGED <<arg, out, df, df_maf, df_bb, now, buno_i, loop, maf_546_events,
                   slep_events, maf_546_projections, future_df, combined_df>>

(***************************************************************************)
(* Step 10: add_enhanced_buno_key                                          *)
(***************************************************************************)
\* BUNO.astype(str) + "_" + FY.astype(str) + "_" + TASK.astype(str)
BaseKey(row) ==
    StrOf(row.BUNO) \o <<"_">> \o StrOf(row.FY) \o <<"_">> \o StrOf(row.TASK)

IsDuplicateMut(keys, i) == \E j \in 1..(i - 1) : keys[j] = keys[i]

\* duplicated(subset=['BUNO_key'], keep=False): some other row has the key
IsDuplicate(keys, i) == \E j \in 1..Len(keys) : j # i /\ keys[j] = keys[i]

\* groupby('BUNO_key').cumcount(): the number of earlier rows with the key
Cumcount(keys, i) == Cardinality({j \in 1..(i - 1) : keys[j] = keys[i]})

AddKeyDropMut(frame) ==
    LET keys == [i \in 1..Len(frame) |-> BaseKey(frame[i])]
        kept == {i \in 1..Len(frame) : ~\E j \in 1..(i - 1) : keys[j] = keys[i]}
        nth(n) == CHOOSE i \in kept : Cardinality({j \in kept : j < i}) = n - 1
    IN [n \in 1..Cardinality(kept) |-> WithKey(frame[nth(n)], keys[nth(n)])]

add_enhanced_buno_key(frame) ==
    LET keys == [i \in 1..Len(frame) |-> BaseKey(frame[i])]
    IN [i \in 1..Len(frame) |->
           WithKey(frame[i],
                   IF IsDuplicate(keys, i)
                   THEN keys[i] \o <<"_">> \o IntStr(Cumcount(keys, i))
                   ELSE keys[i])]

(***************************************************************************)
(* Steps 8 to 11 of run_processing                                         *)
(***************************************************************************)
\* The frame with every column of cols it lacks added, filled with None
WithColumns(frame, cols) ==
    [i \in 1..Len(frame) |->
        [c \in cols \cup DOMAIN frame[i] |->
            IF c \in DOMAIN frame[i] THEN frame[i][c] ELSE None]]

\* column not in the frame, or the column is all missing
ColumnMissing(frame, col) ==
    \A i \in 1..Len(frame) : col \notin DOMAIN frame[i] \/ IsNa(frame[i][col])

\* frame[col] = frame['START DATE'].apply(fn), with the column's type inferred
WithFiscal(frame, col) ==
    LET cells == [i \in 1..Len(frame) |->
                     IF col = "QTR" THEN calculate_fiscal_quarter(frame[i].START_DATE)
                     ELSE calculate_fiscal_year(frame[i].START_DATE)]
    IN [i \in 1..Len(frame) |->
           [c \in DOMAIN frame[i] \cup {col} |->
               IF c = col THEN Inferred(cells, i) ELSE frame[i][c]]]

\* Step 9 on one frame
FiscalFilled(frame) ==
    LET q == IF ColumnMissing(frame, "QTR") THEN WithFiscal(frame, "QTR") ELSE frame
    IN IF ColumnMissing(q, "FY") THEN WithFiscal(q, "FY") ELSE q

AnalyzeBumblebeeSlepEvents ==
    /\ pc = "step3b"
    /\ slep_events' = analyze_bumblebee_slep_events(df_bb)
    /\ pc' = "step4"
    /\ UNCHANGED <<arg, out, df, df_maf, df_bb, now, buno_i, loop, maf_546_events,
                   maf_546_projections, future_df, combined_df>>

GenerateMaf546Projections ==
    /\ pc = "step4"
    /\ \E order \in Orders(historical_546_aircraft(df_maf)) :
           maf_546_projections' = generate_maf_546_projections(df_maf, now, order)
    /\ pc' = "step5"
    /\ UNCHANGED <<arg, out, df, df_maf, df_bb, now, buno_i, loop, maf_546_events,
                   slep_events, future_df, combined_df>>

\* Step 8: every frame gets the columns of all the non-empty frames
Harmonize ==
    /\ pc = "step8"
    /\ LET all_columns == Columns(df) \cup Columns(future_df) \cup Columns(maf_546_events)
                            \cup Columns(maf_546_projections) \cup Columns(slep_events)
       IN /\ df' = WithColumns(df, all_columns)
          /\ future_df' = WithColumns(future_df, all_columns)
          /\ maf_546_events' = WithColumns(maf_546_events, all_columns)
          /\ maf_546_projections' = WithColumns(maf_546_projections, all_columns)
          /\ slep_events' = WithColumns(slep_events, all_columns)
    /\ pc' = "step9"
    /\ UNCHANGED <<arg, out, df_maf, df_bb, now, buno_i, loop, combined_df>>

\* Step 9: fiscal columns of the frames that lack them
CalculateFiscal ==
    /\ pc = "step9"
    /\ df' = FiscalFilled(df)
    /\ future_df' = FiscalFilled(future_df)
    /\ maf_546_events' = FiscalFilled(maf_546_events)
    /\ maf_546_projections' = FiscalFilled(maf_546_projections)
    /\ slep_events' = FiscalFilled(slep_events)
    /\ pc' = "step10"
    /\ UNCHANGED <<arg, out, df_maf, df_bb, now, buno_i, loop, combined_df>>

\* Step 10: keys, frame by frame
AddKeys ==
    /\ pc = "step10"
    /\ df' = add_enhanced_buno_key(df)
    /\ future_df' = add_enhanced_buno_key(future_df)
    /\ maf_546_events' = add_enhanced_buno_key(maf_546_events)
    /\ maf_546_projections' = add_enhanced_buno_key(maf_546_projections)
    /\ slep_events' = add_enhanced_buno_key(slep_events)
    /\ pc' = "step11"
    /\ UNCHANGED <<arg, out, df_maf, df_bb, now, buno_i, loop, combined_df>>

CombineMut ==
    /\ pc = "step11"
    /\ combined_df' = df \o future_df \o maf_546_projections \o slep_events
    /\ pc' = "step12"
    /\ UNCHANGED <<arg, out, df, df_maf, df_bb, now, buno_i, loop, maf_546_events,
                   slep_events, maf_546_projections, future_df>>

\* Step 11: the frames one after the other
Combine ==
    /\ pc = "step11"
    /\ combined_df' = df \o future_df \o maf_546_events \o maf_546_projections
                         \o slep_events
    /\ pc' = "step12"
    /\ UNCHANGED <<arg, out, df, df_maf, df_bb, now, buno_i, loop, maf_546_events,
                   slep_events, maf_546_projections, future_df>>

(***************************************************************************)
(* Steps 12 to 14 of run_processing                                        *)
(***************************************************************************)
\* A cell of a date column after pd.to_datetime(column, errors='coerce')
DateCell(v) == IF v.k = "ts" THEN v
               ELSE IF v.k = "str" THEN ToDatetime(v.s)
               ELSE NaT

\* (b - a).dt.days of two date cells
DaysBetween(a, b) == IF a.k = "ts" /\ b.k = "ts" THEN IntV(b.ord - a.ord) ELSE NaN

DateColumns == {"FID", "START_DATE", "FINISH_DATE"}

calculate_enhanced_deltas(frame) ==
    LET dated == [i \in 1..Len(frame) |->
                     [c \in DOMAIN frame[i] |->
                         IF c \in DateColumns THEN DateCell(frame[i][c]) ELSE frame[i][c]]]
        has(c) == \A i \in 1..Len(frame) : c \in DOMAIN frame[i]
        fid == [i \in 1..Len(frame) |-> DaysBetween(dated[i].FID, dated[i].START_DATE)]
        fin == [i \in 1..Len(frame) |-> DaysBetween(dated[i].START_DATE, dated[i].FINISH_DATE)]
        added == (IF has("FID") /\ has("START_DATE") THEN {"FID_START_DATE_DELTA"} ELSE {})
                   \cup (IF has("START_DATE") /\ has("FINISH_DATE")
                         THEN {"START_FINISH_DATE_DELTA"} ELSE {})
    IN [i \in 1..Len(frame) |->
           [c \in DOMAIN frame[i] \cup added |->
               IF c = "FID_START_DATE_DELTA" /\ c \in added THEN Inferred(fid, i)
               ELSE IF c = "START_FINISH_DATE_DELTA" /\ c \in added THEN Inferred(fin, i)
               ELSE dated[i][c]]]

\* Row a sorts before row b under sort_values(['BUNO', 'START DATE']):
\* ascending, missing values last; "tie" when the two keys are equal
SortsBefore(a, b) ==
    LET an == a.BUNO.k \in {"int", "float"}
        bn == b.BUNO.k \in {"int", "float"}
        at == a.START_DATE.k = "ts"
        bt == b.START_DATE.k = "ts"
    IN IF an /\ bn /\ a.BUNO.n # b.BUNO.n THEN a.BUNO.n < b.BUNO.n
       ELSE IF an # bn THEN an
       ELSE IF at /\ bt THEN a.START_DATE.ord < b.START_DATE.ord
       ELSE at /\ ~bt

SortValuesMut(frame) ==
    LET first(i, j) == SortsBefore(frame[i], frame[j])
                         \/ (~SortsBefore(frame[j], frame[i]) /\ i > j)
        place(i) == 1 + Cardinality({j \in 1..Len(frame) : j # i /\ first(j, i)})
    IN [n \in 1..Len(frame) |-> frame[CHOOSE i \in 1..Len(frame) : place(i) = n]]

\* The sort of several columns is a stable one: equal keys keep their order
sort_values(frame) ==
    LET first(i, j) == SortsBefore(frame[i], frame[j])
                         \/ (~SortsBefore(frame[j], frame[i]) /\ i < j)
        place(i) == 1 + Cardinality({j \in 1..Len(frame) : j # i /\ first(j, i)})
    IN [n \in 1..Len(frame) |-> frame[CHOOSE i \in 1..Len(frame) : place(i) = n]]

CalculateDeltas ==
    /\ pc = "step12"
    /\ combined_df' = calculate_enhanced_deltas(combined_df)
    /\ pc' = "step13"
    /\ UNCHANGED <<arg, out, df, df_maf, df_bb, now, buno_i, loop, maf_546_events,
                   slep_events, maf_546_projections, future_df>>

SortLedger ==
    /\ pc = "step13"
    /\ combined_df' = sort_values(combined_df)
    /\ pc' = "step14"
    /\ UNCHANGED <<arg, out, df, df_maf, df_bb, now, buno_i, loop, maf_546_events,
                   slep_events, maf_546_projections, future_df>>

\* Step 14: the files written, by their keys in output_paths
Export ==
    /\ pc = "step14"
    /\ out' = {"combined"}
                \cup (IF future_df # <<>> THEN {"future"} ELSE {})
                \cup (IF maf_546_events # <<>> THEN {"maf_analysis"} ELSE {})
                \cup (IF maf_546_projections # <<>> THEN {"maf_projection"} ELSE {})
                \cup (IF slep_events # <<>> THEN {"slep_analysis"} ELSE {})
                \cup (IF \E i \in 1..Len(combined_df) :
                            "REBASE" \in DOMAIN combined_df[i] /\ combined_df[i].REBASE = TRUE
                      THEN {"rebase"} ELSE {})
    /\ pc' = "done"
    /\ UNCHANGED <<arg, df, df_maf, df_bb, now, buno_i, loop, maf_546_events,
                   slep_events, maf_546_projections, future_df, combined_df>>

(***************************************************************************)
(* Steps 1 to 3 of run_processing: the loading of the three inputs.  In    *)
(* the pipeline arg is the set of input files that exist, and df, df_maf   *)
(* and df_bb hold the sheets as read until their loader has run.           *)
(***************************************************************************)
\* Every row of the sheet has the column
HasColumn(sheet, col) == \A i \in 1..Len(sheet) : col \in DOMAIN sheet[i]

\* load_depot_data: "exit" for sys.exit(1), else the sheet
load_depot_data(files, sheet) ==
    IF "depot" \notin files THEN "exit"
    ELSE IF \E col \in {"BUNO", "START_DATE", "TASK"} : ~HasColumn(sheet, col) THEN "exit"
    ELSE "ok"

\* A cell of START DATE under pd.to_datetime(column): errors are raised
DepotDate(v) == IF v.k = "ts" THEN v
                ELSE IF v.k = "str" /\ Strip(v.s) # <<>>
                     THEN (IF ToDatetime(Strip(v.s)).k = "ts" THEN ToDatetime(Strip(v.s))
                           ELSE [k |-> "raise"])
                ELSE NaT

\* Lines 962-963 on the loaded sheet
DepotFrame(sheet) ==
    [i \in 1..Len(sheet) |->
        [c \in DOMAIN sheet[i] \cup {"data_source"} |->
            CASE c = "START_DATE" -> DepotDate(sheet[i].START_DATE)
              [] c = "data_source" -> "H60_IMP_Report"
              [] OTHER -> sheet[i][c]]]

\* Step 1: sys.exit(1) leaves at "exit"; a START DATE that does not parse
\* raises out of run_processing, "abort"
LoadDepot ==
    /\ pc = "step1"
    /\ IF load_depot_data(arg, df) = "exit"
       THEN pc' = "exit" /\ df' = df
       ELSE IF \E i \in 1..Len(df) : DepotDate(df[i].START_DATE).k = "raise"
       THEN pc' = "abort" /\ df' = df
       ELSE pc' = "step2a" /\ df' = DepotFrame(df)
    /\ UNCHANGED <<arg, out, df_maf, df_bb, now, buno_i, loop, maf_546_events,
                   slep_events, maf_546_projections, future_df, combined_df>>

\* load_maf_data: sys.exit(1) when the file is absent or, through the KeyError
\* of df_maf['Buno'] in validate_maf_data, when that column is; the other
\* analysis columns are only warned about
load_maf_data(files, sheet) ==
    IF "maf" \notin files THEN "exit"
    ELSE IF ~HasColumn(sheet, "Buno") THEN "exit"
    ELSE "ok"

\* df_maf['Work Center'].astype(str), when the column is there
MafFrame(sheet) ==
    [i \in 1..Len(sheet) |->
        [c \in DOMAIN sheet[i] |->
            IF c = "Work_Center" THEN Str(StrOf(sheet[i][c])) ELSE sheet[i][c]]]

LoadMaf ==
    /\ pc = "step2a"
    /\ IF load_maf_data(arg, df_maf) = "exit"
       THEN pc' = "exit" /\ df_maf' = df_maf
       ELSE pc' = "step2" /\ df_maf' = MafFrame(df_maf)
    /\ UNCHANGED <<arg, out, df, df_bb, now, buno_i, loop, maf_546_events,
                   slep_events, maf_546_projections, future_df, combined_df>>

\* The columns of the sheet whose name contains 'buno' in any case
buno_columns(sheet) == Columns(sheet) \cap {"BUNO", "Buno"}

\* load_bumblebee_data: the empty frame when the file is absent, the hours
\* column is missing or no aircraft column is found
load_bumblebee_data(files, sheet) ==
    IF "bb" \notin files THEN <<>>
    ELSE IF ~HasColumn(sheet, "AI_Running_Total_Flight_Hours") THEN <<>>
    ELSE IF buno_columns(sheet) = {} THEN <<>>
    ELSE LET buno_col == IF "BUNO" \in buno_columns(sheet) THEN "BUNO" ELSE "Buno"
         IN [i \in 1..Len(sheet) |->
                [c \in DOMAIN sheet[i] \cup {"BUNO"} |->
                    IF c = "BUNO" THEN sheet[i][buno_col] ELSE sheet[i][c]]]

LoadBumblebee ==
    /\ pc = "step3"
    /\ df_bb' = load_bumblebee_data(arg, df_bb)
    /\ pc' = "step3b"
    /\ UNCHANGED <<arg, out, df, df_maf, now, buno_i, loop, maf_546_events,
                   slep_events, maf_546_projections, future_df, combined_df>>

(***************************************************************************)
(* Specification SpecFiscal: the two fiscal functions applied to one       *)
(* argument drawn from the Timestamps and texts below.                     *)
(***************************************************************************)
YearSpan == 2
FiscalYears == 2023..(2023 + YearSpan)

FiscalDays == {ToOrdinal(y, m, d) : y \in FiscalYears, m \in 1..12, d \in {1, 15, 28}}
                \cup {ToOrdinal(y, m, DaysInMonth(y, m)) : y \in FiscalYears, m \in 1..12}

\* Texts that are no date: 'N/A', the empty text, '2024-13-01', '2023-02-29',
\* and a day past the Timestamp range, '2262-04-12'
NotADate == { <<"N", "/", "A">>,
              <<>>,
              <<"2", "0", "2", "4", "-", "1", "3", "-", "0", "1">>,
              <<"2", "0", "2", "3", "-", "0", "2", "-", "2", "9">>,
              <<"2", "2", "6", "2", "-", "0", "4", "-", "1", "2">> }

FiscalArgs == {None, NaT, NaN}
                \cup {Ts(n) : n \in FiscalDays}
                \cup {Str(Strftime(Ts(n))) : n \in FiscalDays}
                \cup {Str(s) : s \in NotADate}

Idle == /\ df = <<>> /\ df_maf = <<>> /\ df_bb = <<>> /\ now = NaT /\ buno_i = 0 /\ loop = None
        /\ maf_546_events = <<>> /\ slep_events = <<>> /\ maf_546_projections = <<>>
        /\ future_df = <<>> /\ combined_df = <<>>

frames == <<df, df_maf, df_bb, now, buno_i, loop, maf_546_events, slep_events,
            maf_546_projections, future_df, combined_df>>

InitFiscal == /\ pc = "fiscal_call"
              /\ arg \in FiscalArgs
              /\ out = None
              /\ Idle

CallFiscal == /\ pc = "fiscal_call"
              /\ out' = [fy |-> calculate_fiscal_year(arg),
                         qtr |-> calculate_fiscal_quarter(arg)]
              /\ pc' = "fiscal_done"
              /\ UNCHANGED <<arg, frames>>

NextFiscal == CallFiscal

SpecFiscal == InitFiscal /\ [][NextFiscal]_vars

\* The argument is a valid date: a Timestamp, or a text that names a day
ValidDateArg == \/ arg.k = "ts"
                \/ /\ arg.k = "str"
                   /\ Len(arg.s) = 10
                   /\ Num(arg.s, 6, 7) \in 1..12
                   /\ Num(arg.s, 9, 10) \in 1..DaysInMonth(Num(arg.s, 1, 4), Num(arg.s, 6, 7))
                   /\ Num(arg.s, 1, 4) < 2262

\* Its year and month, read from the text's digits or the Timestamp's fields
ArgYear == IF arg.k = "str" THEN Num(arg.s, 1, 4) ELSE Civil(arg.ord).year
ArgMonth == IF arg.k = "str" THEN Num(arg.s, 6, 7) ELSE Civil(arg.ord).month

\* C6: for every valid date d, calculate_fiscal_year(d) is year(d)+1 if and
\* only if month(d) >= 10, and is year(d) otherwise.
C6_FiscalYearRule ==
    (pc = "fiscal_done" /\ ValidDateArg) =>
        /\ out.fy.k = "int"
        /\ (out.fy.n = ArgYear + 1) <=> (ArgMonth >= 10)
        /\ (ArgMonth < 10) => (out.fy.n = ArgYear)

C6_Witness == /\ pc = "fiscal_done" /\ ValidDateArg /\ arg.k = "str"
              /\ ArgMonth = 10 /\ out.fy = IntV(ArgYear + 1)

\* C7: for every valid date d, calculate_fiscal_quarter(d) is never null and is
\* 1 for Oct-Dec, 2 for Jan-Mar, 3 for Apr-Jun, 4 for Jul-Sep.
C7_FiscalQuarterRule ==
    (pc = "fiscal_done" /\ ValidDateArg) =>
        /\ out.qtr.k = "int"
        /\ out.qtr.n = (CASE ArgMonth \in {10, 11, 12} -> 1
                          [] ArgMonth \in {1, 2, 3} -> 2
                          [] ArgMonth \in {4, 5, 6} -> 3
                          [] ArgMonth \in {7, 8, 9} -> 4)

C7_Witness == /\ pc = "fiscal_done" /\ ValidDateArg /\ arg.k = "ts"
              /\ ArgMonth = 7 /\ out.qtr = IntV(4)

\* The argument is missing, or is a text that does not parse as a date
MissingOrUnparseable == IsNa(arg) \/ (arg.k = "str" /\ ~ValidDateArg)

\* C8: for every input that is missing or is a text that does not parse as a
\* date, both fiscal functions return null (no fiscal year, no quarter number).
C8_NullOnBadInput ==
    (pc = "fiscal_done" /\ MissingOrUnparseable) =>
        /\ IsNa(out.fy)
        /\ IsNa(out.qtr)

(***************************************************************************)
(* Specification SpecPMI: steps 5 to 7 on depot frames of one or two rows  *)
(***************************************************************************)
D(y, m, d) == Ts(ToOrdinal(y, m, d))

PmiStarts == {NaT, D(2020, 1, 1), D(2021, 8, 31)}
PmiFinishes == {NaT, D(2050, 6, 30)}
PmiTasks == {None, Str(<<"P", "M", "I", "1">>), Str(<<"p", "m", "i", "2">>), Str(REBASE)}
PmiSquadrons == {None, Str(<<"H", "S", "M">>), Str(<<"A", "m", "a", "r", "g">>)}
PmiTypes == {None, Str(<<"R">>)}

\* A depot row as step 1 leaves it: START DATE a datetime, data_source set
DepotRow(b, s, f, t, q, m) ==
    [BUNO |-> b, START_DATE |-> s, FINISH_DATE |-> f, TASK |-> t, SQD |-> q, TMS |-> m,
     data_source |-> "H60_IMP_Report"]

PmiFirstRows == {DepotRow(IntV(1), s, f, t, q, m) :
                    s \in PmiStarts, f \in PmiFinishes, t \in PmiTasks,
                    q \in PmiSquadrons, m \in PmiTypes}

PmiSecondRows == {DepotRow(b, s, NaT, t, q, None) :
                    b \in {IntV(1), IntV(2)}, s \in PmiStarts, t \in PmiTasks,
                    q \in PmiSquadrons}

\* Aircraft last seen in 1690, far enough back for the loop to run 100 times
PmiOldRows == {DepotRow(IntV(1), D(1690, 1, 31), NaT, t, q, None) :
                    t \in PmiTasks, q \in PmiSquadrons}

\* Aircraft whose only task label names no variant, or both
PmiPlainRows == {DepotRow(IntV(1), D(2021, 8, 31), NaT, Str(t), Str(<<"H", "S", "M">>), None) :
                    t \in {PMI, <<"P", "M", "I", "1", "2">>, <<"P", "M", "I", "2", "1">>}}

\* A frame read from a sheet that has no SQD column
NoSqdFrame == << [BUNO |-> IntV(1), START_DATE |-> D(2020, 1, 1), FINISH_DATE |-> NaT,
                  TASK |-> Str(<<"P", "M", "I", "1">>),
                  data_source |-> "H60_IMP_Report"] >>

PmiFrames == {<<>>, NoSqdFrame}
                \cup {<<r>> : r \in PmiFirstRows \cup PmiOldRows \cup PmiPlainRows}
                \cup {<<r1, r2>> : r1 \in PmiFirstRows, r2 \in PmiSecondRows}

InitPMI == /\ pc = "step5"
           /\ df \in PmiFrames
           /\ arg = None /\ out = None
           /\ df_maf = <<>> /\ df_bb = <<>> /\ now = NaT /\ buno_i = 0 /\ loop = None
           /\ maf_546_events = <<>> /\ slep_events = <<>> /\ maf_546_projections = <<>>
           /\ future_df = <<>> /\ combined_df = <<>>

NextPMI == ProcessDepotAmargDetection \/ EnterAircraft \/ PmiIterate \/ CreateFutureFrame

SpecPMI == InitPMI /\ [][NextPMI]_vars

\* The events of future_df that carry aircraft id b, in order
EventsOf(b) == RowsOf(future_df, b)

\* Aircraft b has a historical row whose SQD contains "AMARG" in any case
HasAmargRow(b) ==
    \E i \in 1..Len(df) :
        /\ df[i].BUNO = b
        /\ "SQD" \in DOMAIN df[i]
        /\ df[i].SQD.k = "str"
        /\ \E j \in 1..(Len(df[i].SQD.s) - 4) :
              /\ df[i].SQD.s[j] \in {"A", "a"}
              /\ df[i].SQD.s[j + 1] \in {"M", "m"}
              /\ df[i].SQD.s[j + 2] \in {"A", "a"}
              /\ df[i].SQD.s[j + 3] \in {"R", "r"}
              /\ df[i].SQD.s[j + 4] \in {"G", "g"}

\* C1: an aircraft with a historical record whose unit assignment contains
\* "AMARG" in any case (the derived most-recent assignment is one of them) has
\* no PMI-projection record.
C1_NoAmargProjection ==
    \A i \in 1..Len(future_df) : ~HasAmargRow(future_df[i].BUNO)

\* An aircraft with a PMI1 record of 2020-01-01 in squadron HSM, which alone
\* would be projected, and an undated record in "Amarg": nothing is projected
C1_Witness ==
    /\ pc = "step8"
    /\ Len(df) = 2
    /\ df[1].BUNO = df[2].BUNO
    /\ df[1].TASK = Str(<<"P", "M", "I", "1">>)
    /\ df[1].START_DATE = D(2020, 1, 1)
    /\ df[1].FINISH_DATE = NaT
    /\ df[1].SQD = Str(<<"H", "S", "M">>)
    /\ df[2].START_DATE = NaT
    /\ df[2].SQD = Str(<<"A", "m", "a", "r", "g">>)
    /\ future_df = <<>>

\* C4: no aircraft gets more than 100 PMI-projection events.
C4_AtMost100Events ==
    \A i \in 1..Len(df) : Len(EventsOf(df[i].BUNO)) <= 100

\* The cap binds: an aircraft last seen in 1690 stops at exactly 100 events
C4_Witness ==
    /\ pc = "step8"
    /\ \E i \in 1..Len(df) : /\ df[i].START_DATE = D(1690, 1, 31)
                             /\ Len(EventsOf(df[i].BUNO)) = 100

\* The day d plus 42 calendar months, as year, month and day
Plus42Months(d) ==
    LET c == Civil(d.ord)
        y == IF c.month <= 6 THEN c.year + 3 ELSE c.year + 4
        m == IF c.month <= 6 THEN c.month + 6 ELSE c.month - 6
    IN [year |-> y, month |-> m,
        day |-> IF c.day > DaysInMonth(y, m) THEN DaysInMonth(y, m) ELSE c.day]

\* The day a 'YYYY-MM-DD' text names, as a day count
DayCount(s) == ToOrdinal(Num(s, 1, 4), Num(s, 6, 7), Num(s, 9, 10))

\* The first event e of an aircraft whose rows are rows
FirstEventRight(e, rows) ==
    LET d == get_most_recent_date(rows)
        p == Plus42Months(d)
        y == Num(e.START_DATE.s, 1, 4)
        m == Num(e.START_DATE.s, 6, 7)
    IN /\ \E t \in find_last_pmi_task(rows) : e.TASK = Str(get_next_pmi_task(t.s))
       /\ e.START_DATE.s = Pad(p.year, 4) \o <<"-">> \o Pad(p.month, 2)
                             \o <<"-">> \o Pad(p.day, 2)
       /\ DayCount(e.FINISH_DATE.s) - DayCount(e.START_DATE.s) = 21
       /\ e.FY = IntV(IF m >= 10 THEN y + 1 ELSE y)
       /\ e.QTR = IntV(CASE m >= 10 -> 1 [] m <= 3 -> 2 [] m <= 6 -> 3 [] OTHER -> 4)

\* Aircraft b is not excluded and its most recent date plus 42 months is
\* before the horizon
Projectable(b) ==
    LET rows == RowsOf(df, b)
        d == get_most_recent_date(rows)
    IN /\ PmiRows(rows) # {}
       /\ d # None
       /\ ~HasAmargRow(b)
       /\ \A i \in 1..Len(rows) : "SQD" \in DOMAIN rows[i]
       /\ Plus42Months(d).year < 2052

C22_TasksAlternate ==
    \A k \in 1..Len(df) :
        LET events == EventsOf(df[k].BUNO)
        IN \A i \in 1..(Len(events) - 1) : events[i].TASK # events[i + 1].TASK

\* The day count of the day d plus 42 calendar months
After42Months(d) ==
    LET p == Plus42Months(Ts(d)) IN ToOrdinal(p.year, p.month, p.day)

\* The horizon 2052-12-31 as a day count
Horizon == ToOrdinal(2052, 12, 31)

\* C23: in the PMI projections of any aircraft each start is 42 calendar
\* months after the start of the event before it, whatever the tasks are,
\* each finish is 21 days after its start, every start is strictly before
\* 2052-12-31, and generation ends with the step that reaches or passes the
\* horizon (or with the 100th event).
C23_PmiSequenceDates ==
    \A k \in 1..Len(df) :
        LET events == EventsOf(df[k].BUNO)
            start(i) == DayCount(events[i].START_DATE.s)
        IN /\ \A i \in 1..(Len(events) - 1) : start(i + 1) = After42Months(start(i))
           /\ \A i \in 1..Len(events) :
                 /\ DayCount(events[i].FINISH_DATE.s) = start(i) + 21
                 /\ start(i) < Horizon
           /\ (pc = "step8" /\ events # <<>>) =>
                 \/ Len(events) = 100
                 \/ After42Months(start(Len(events))) >= Horizon

\* PMI1 at 2021-08-31: eight events, 2025-02-28, 2028-08-28, ... 2049-08-28
C23_Witness ==
    /\ pc = "step8"
    /\ Len(df) = 1
    /\ df[1].START_DATE = D(2021, 8, 31)
    /\ df[1].TASK = Str(<<"P", "M", "I", "1">>)
    /\ Len(future_df) = 8
    /\ future_df[1].START_DATE = Str(<<"2", "0", "2", "5", "-", "0", "2", "-", "2", "8">>)
    /\ future_df[2].START_DATE = Str(<<"2", "0", "2", "8", "-", "0", "8", "-", "2", "8">>)
    /\ future_df[1].TASK # future_df[2].TASK
    /\ future_df[8].START_DATE = Str(<<"2", "0", "4", "9", "-", "0", "8", "-", "2", "8">>)
    /\ future_df[8].FINISH_DATE = Str(<<"2", "0", "4", "9", "-", "0", "9", "-", "1", "8">>)

\* The task of the row is text that contains "PMI" in any case
HasPmiText(row) ==
    /\ row.TASK.k = "str"
    /\ \E j \in 1..(Len(row.TASK.s) - 2) :
          /\ row.TASK.s[j] \in {"P", "p"}
          /\ row.TASK.s[j + 1] \in {"M", "m"}
          /\ row.TASK.s[j + 2] \in {"I", "i"}

\* The row has a start date or a finish date
HasADate(row) ==
    \/ row.START_DATE.k = "ts"
    \/ "FINISH_DATE" \in DOMAIN row /\ row.FINISH_DATE.k = "ts"

\* The PMI records among rows that have the latest start date of them
LatestPmi(rows) ==
    LET dated == {i \in 1..Len(rows) : HasPmiText(rows[i]) /\ rows[i].START_DATE.k = "ts"}
    IN {i \in dated : \A j \in dated : rows[j].START_DATE.ord <= rows[i].START_DATE.ord}

\* C27: an aircraft without a record whose task contains "PMI" in any case,
\* or without a start or finish date in any record, gets no PMI projections;
\* and the projections of an aircraft with dated PMI records start from the
\* task of a PMI record with the latest start date.
C27_LastPmiTask ==
    \A k \in 1..Len(df) :
        LET rows == RowsOf(df, df[k].BUNO)
            events == EventsOf(df[k].BUNO)
        IN /\ (\A i \in 1..Len(rows) : ~HasPmiText(rows[i])) => events = <<>>
           /\ (\A i \in 1..Len(rows) : ~HasADate(rows[i])) => events = <<>>
           /\ (events # <<>> /\ LatestPmi(rows) # {}) =>
                 \E i \in LatestPmi(rows) :
                     events[1].TASK = Str(get_next_pmi_task(rows[i].TASK.s))

\* PMI1 of 2020-01-01 and pmi2 of 2021-08-31: the projections start with pmi1
C27_Witness ==
    /\ pc = "step8"
    /\ Len(df) = 2
    /\ df[1].BUNO = df[2].BUNO
    /\ df[1].TASK = Str(<<"P", "M", "I", "1">>) /\ df[1].START_DATE = D(2020, 1, 1)
    /\ df[2].TASK = Str(<<"p", "m", "i", "2">>) /\ df[2].START_DATE = D(2021, 8, 31)
    /\ future_df # <<>>
    /\ future_df[1].TASK = Str(<<"p", "m", "i", "1">>)

(***************************************************************************)
(* Specification SpecToggle: get_next_pmi_task applied twice to a label    *)
(***************************************************************************)
MaxLen == 4

\* The sequences over S of length at most n
SeqUpTo(S, n) == UNION {[1..k -> S] : k \in 0..n}

Labels == SeqUpTo({"P", "M", "i", "1", "2"}, MaxLen)

InitToggle == /\ pc = "toggle_call"
              /\ arg \in Labels
              /\ out = <<>>
              /\ Idle

ToggleOnce == /\ pc = "toggle_call"
              /\ out' = get_next_pmi_task(arg)
              /\ pc' = "toggle_once"
              /\ UNCHANGED <<arg, frames>>

ToggleTwice == /\ pc = "toggle_once"
               /\ out' = get_next_pmi_task(out)
               /\ pc' = "toggle_twice"
               /\ UNCHANGED <<arg, frames>>

NextToggle == ToggleOnce \/ ToggleTwice

SpecToggle == InitToggle /\ [][NextToggle]_vars

\* The positions of the label that hold a '1' or a '2'
ToggleDigits(t) == {i \in 1..Len(t) : t[i] \in {"1", "2"}}

\* C9: for every label t with exactly one character from {'1', '2'},
\* get_next_pmi_task(get_next_pmi_task(t)) = t.
C9_ToggleTwice ==
    (pc = "toggle_twice" /\ Cardinality(ToggleDigits(arg)) = 1) => out = arg

C9_Witness == /\ pc = "toggle_twice"
              /\ arg = <<"P", "M", "i", "2">>
              /\ out = arg

\* The digit that get_next_pmi_task replaces in the label t, and its replacement
Toggled(t) == IF \E i \in 1..Len(t) : t[i] = "1" THEN "1" ELSE "2"
ToggledTo(t) == IF Toggled(t) = "1" THEN "2" ELSE "1"

\* The positions of the label t that hold the replaced digit
ToggledAt(t) == {i \in 1..Len(t) : t[i] = Toggled(t)}

\* The positions in which the result differs from the label
Changed == {i \in 1..Len(arg) : out[i] # arg[i]}

\* C21 as stated: for a label holding the toggled digit more than once, the
\* result of get_next_pmi_task differs from the label in exactly one
\* position, the first occurrence of that digit, which holds the other digit.
C21_OnlyFirstOccurrence ==
    (pc = "toggle_once" /\ Cardinality(ToggledAt(arg)) > 1) =>
        /\ Len(out) = Len(arg)
        /\ Changed = {CHOOSE i \in ToggledAt(arg) : \A j \in ToggledAt(arg) : i <= j}
        /\ \A i \in Changed : out[i] = ToggledTo(arg)

\* C21 as amended: for a label holding the toggled digit more than once, the
\* result of get_next_pmi_task differs from the label in exactly the positions
\* that hold that digit, every one of which holds the other digit.
C21_EveryOccurrence ==
    (pc = "toggle_once" /\ Cardinality(ToggledAt(arg)) > 1) =>
        /\ Len(out) = Len(arg)
        /\ Changed = ToggledAt(arg)
        /\ \A i \in Changed : out[i] = ToggledTo(arg)

C21_Witness == /\ pc = "toggle_once"
               /\ arg = <<"1", "M", "1", "2">>
               /\ out = <<"2", "M", "2", "2">>

(***************************************************************************)
(* Specification SpecKey: add_enhanced_buno_key applied to one frame       *)
(***************************************************************************)
MaxRecs == 3

KeyRows == {[BUNO |-> IntV(b), FY |-> IntV(f), TASK |-> Str(t)] :
               b \in {1, 2}, f \in {2024, 2025},
               t \in { <<"P", "M", "I", "1">>,
                       <<"P", "M", "I", "1", "_", "1">>,
                       <<"5", "4", "6", "D", "A", "Y">> }}

InitKey == /\ pc = "key_call"
           /\ arg \in SeqUpTo(KeyRows, MaxRecs)
           /\ out = <<>>
           /\ Idle

CallAddKey == /\ pc = "key_call"
              /\ out' = add_enhanced_buno_key(arg)
              /\ pc' = "key_done"
              /\ UNCHANGED <<arg, frames>>

NextKey == CallAddKey

SpecKey == InitKey /\ [][NextKey]_vars

\* The key K = aircraft_id_fiscalyear_task of a row, written out
KeyText(row) ==
    IntStr(row.BUNO.n) \o <<"_">> \o IntStr(row.FY.n) \o <<"_">> \o row.TASK.s

\* The rows of the argument that share the base key of row i
KeyGroup(i) == {j \in 1..Len(arg) : KeyText(arg[j]) = KeyText(arg[i])}

\* C3: in a group of n > 1 records sharing the base key K, the i-th member in
\* record order (i = 0..n-1) ends with key K_i, so the group's keys are pairwise
\* distinct; a record whose base key no other record shares keeps K.
C3_GroupSuffixes ==
    pc = "key_done" =>
        \A i \in 1..Len(arg) :
            /\ Cardinality(KeyGroup(i)) > 1 =>
                  out[i].BUNO_key.s = KeyText(arg[i]) \o <<"_">>
                      \o IntStr(Cardinality({j \in KeyGroup(i) : j < i}))
            /\ Cardinality(KeyGroup(i)) = 1 => out[i].BUNO_key.s = KeyText(arg[i])
            /\ \A j \in KeyGroup(i) : j # i => out[j].BUNO_key # out[i].BUNO_key

\* Scenario C: two records with key 1_2024_PMI1, the second becomes 1_2024_PMI1_1
C3_Witness ==
    /\ pc = "key_done"
    /\ Len(arg) = 2
    /\ KeyText(arg[1]) = <<"1", "_", "2", "0", "2", "4", "_", "P", "M", "I", "1">>
    /\ KeyText(arg[2]) = KeyText(arg[1])
    /\ out[2].BUNO_key.s = <<"1", "_", "2", "0", "2", "4", "_", "P", "M", "I", "1", "_", "1">>

(***************************************************************************)
(* Specification SpecMAF: step 2 on MAF frames of one or two rows          *)
(***************************************************************************)
T_2024_03_01 == <<"2", "0", "2", "4", "-", "0", "3", "-", "0", "1">>
T_2024_03_02 == <<"2", "0", "2", "4", "-", "0", "3", "-", "0", "2">>
T_2024_10_15 == <<"2", "0", "2", "4", "-", "1", "0", "-", "1", "5">>
T_2023_12_31 == <<"2", "0", "2", "3", "-", "1", "2", "-", "3", "1">>
T_2262_04_01 == <<"2", "2", "6", "2", "-", "0", "4", "-", "0", "1">>
T_NA == <<"N", "/", "A">>
T_546_DAY == <<"5", "4", "6", " ", "D", "A", "Y", " ", "I", "N", "S", "P", "E", "C", "T", "I", "O", "N">>
T_PHASE == <<"P", "H", "A", "S", "E">>

MafRow(b, wuc, wc, reason, rdt, rd, iwd, cdt, cd) ==
    [Buno |-> b, WUC |-> wuc, Work_Center |-> wc, System_Reason_Description |-> reason,
     Received_Date_Time |-> rdt, Received_Date |-> rd, In_Work_Date |-> iwd,
     Comp_Date_Time |-> cdt, Comp_Date |-> cd,
     Jcn |-> Str(<<"J">>), Mcn |-> Str(<<"M">>)]

MafRows ==
    {MafRow(b, wuc, wc, reason, rdt, rd, iwd, NaN, cd) :
        b \in {IntV(1), NaN},
        wuc \in {Str(WUC_546), Str(<<"0", "3", "0", "0", "0", "0">>)},
        wc \in {Str(WC_020), Str(<<"2", "0", " ">>), Str(<<"2", "0", "0">>)},
        reason \in {Str(T_546_DAY), Str(T_PHASE), NaN},
        rdt \in {NaN, Str(T_NA), Str(T_2024_03_02)},
        rd \in {NaN, Str(T_2024_03_01), Str(T_2262_04_01)},
        iwd \in {NaN, Str(T_2024_10_15)},
        cd \in {NaN, Str(T_2023_12_31)}}

MafPairRows ==
    {MafRow(b, Str(WUC_546), Str(WC_20), reason, NaN, rd, NaN, NaN, NaN) :
        b \in {IntV(1), IntV(2), NaN},
        reason \in {Str(T_546_DAY), Str(T_PHASE)},
        rd \in {NaN, Str(T_2024_03_01)}}

MafFrames == {<<>>} \cup {<<r>> : r \in MafRows}
                \cup {<<r1, r2>> : r1 \in MafPairRows, r2 \in MafPairRows}

InitMAF == /\ pc = "step2"
           /\ df_maf \in MafFrames
           /\ arg = None /\ out = None
           /\ df = <<>> /\ df_bb = <<>> /\ now = NaT /\ buno_i = 0 /\ loop = None
           /\ maf_546_events = <<>> /\ slep_events = <<>> /\ maf_546_projections = <<>>
           /\ future_df = <<>> /\ combined_df = <<>>

NextMAF == AnalyzeMaf546Events

SpecMAF == InitMAF /\ [][NextMAF]_vars

\* C10: every historical 546-day event has its finish date exactly 21 days
\* after its start date.
C10_FinishIs21DaysAfterStart ==
    \A i \in 1..Len(maf_546_events) :
        DayCount(maf_546_events[i].FINISH_DATE.s)
            - DayCount(maf_546_events[i].START_DATE.s) = 21

\* The text names a day of the calendar as YYYY-MM-DD
TextIsDate(s) == /\ Len(s) = 10
                 /\ Num(s, 6, 7) \in 1..12
                 /\ Num(s, 9, 10) \in 1..DaysInMonth(Num(s, 1, 4), Num(s, 6, 7))

\* The three predicates of a 546-day match, read from the fields of the row
CodeMatches(row) == row.WUC.k = "str" /\ Strip(row.WUC.s) = <<"0", "3", "0", "0", "0", "0", "P">>
CenterMatches(row) == /\ row.Work_Center.k = "str"
                      /\ Strip(row.Work_Center.s) \in { <<"0", "2", "0">>, <<"2", "0">> }
ReasonMatches(row) ==
    /\ row.System_Reason_Description.k = "str"
    /\ \E i \in 1..Len(row.System_Reason_Description.s) :
           /\ i + 2 <= Len(row.System_Reason_Description.s)
           /\ SubSeq(row.System_Reason_Description.s, i, i + 2) = <<"5", "4", "6">>

\* One of the five date fields of the row holds a date
HasParseableDate(row) ==
    \E c \in {"Received_Date_Time", "Received_Date", "In_Work_Date", "Comp_Date_Time", "Comp_Date"} :
        row[c].k = "str" /\ TextIsDate(Strip(row[c].s))

\* The rows of the MAF frame that must yield an event
Matching == {i \in 1..Len(df_maf) : /\ CodeMatches(df_maf[i]) /\ CenterMatches(df_maf[i])
                                    /\ ReasonMatches(df_maf[i]) /\ HasParseableDate(df_maf[i])}

FieldOrder ==
    <<"Received_Date_Time", "Received_Date", "In_Work_Date", "Comp_Date_Time", "Comp_Date">>

\* The field of the row holds text that is a date
FieldParses(row, c) == row[c].k = "str" /\ TextIsDate(Strip(row[c].s))

\* The first field of the row, in that order, that holds a date
FirstDateField(row) ==
    FieldOrder[CHOOSE n \in 1..5 : /\ FieldParses(row, FieldOrder[n])
                                   /\ \A l \in 1..(n - 1) : ~FieldParses(row, FieldOrder[l])]

\* The row satisfies the three predicates; and has a date as well
Qualifies(row) == CodeMatches(row) /\ CenterMatches(row) /\ ReasonMatches(row)
QualifiesWithDate(row) == Qualifies(row) /\ HasParseableDate(row)

\* C26: the start date of the event of a qualifying row is the value of the
\* first of Received Date Time, Received Date, In Work Date, Comp Date Time,
\* Comp Date that parses as a date, fields that are present but do not parse
\* being passed over; a qualifying row without a parseable date yields no event
\* and the rows after it are still processed.
C26_FirstParseableDate ==
    pc = "step3" =>
        LET dated == SelectSeq(df_maf, QualifiesWithDate)
        IN /\ Len(maf_546_events) = Len(dated)
           /\ \A n \in 1..Len(dated) :
                 /\ maf_546_events[n].START_DATE
                       = Str(Strip(dated[n][FirstDateField(dated[n])].s))
                 /\ maf_546_events[n].date_source_used = FirstDateField(dated[n])

\* Received Date Time "N/A" is passed over for Received Date 2024-03-01,
\* which goes before In Work Date 2024-10-15 and Comp Date 2023-12-31
C26_Witness ==
    /\ pc = "step3"
    /\ Len(df_maf) = 1
    /\ Qualifies(df_maf[1])
    /\ df_maf[1].Received_Date_Time = Str(T_NA)
    /\ df_maf[1].Received_Date = Str(T_2024_03_01)
    /\ df_maf[1].In_Work_Date = Str(T_2024_10_15)
    /\ df_maf[1].Comp_Date = Str(T_2023_12_31)
    /\ Len(maf_546_events) = 1
    /\ maf_546_events[1].START_DATE = Str(T_2024_03_01)

\* C15: every record of every generated stream and of the ledger has an
\* aircraft id; a qualifying MAF row without one yields no 546-day event.
C15_AircraftIdNeverNull ==
    \A stream \in {maf_546_events, slep_events, maf_546_projections, future_df, combined_df} :
        \A i \in 1..Len(stream) : NotNa(stream[i].BUNO)

(***************************************************************************)
(* Specification SpecSLEP: step 3 on flight-hour frames of up to           *)
(* MaxBbRows rows                                                          *)
(***************************************************************************)
MaxBbRows == 3

BbRow(b, h) == [BUNO |-> b, AI_Running_Total_Flight_Hours |-> h]

\* One observation at each side of every threshold
BbEdgeRows ==
    {BbRow(b, h) :
        b \in {IntV(1), NaN, Str(T_NA), Str(<<"7">>)},
        h \in {IntV(9999), IntV(10000), IntV(11999), IntV(12000), IntV(13999),
               IntV(14000), IntV(15999), IntV(16000), IntV(20000), NaN, Str(T_NA)}}

\* Observations of two aircraft and of an aircraft whose id is no number
BbSeqRows ==
    {BbRow(b, h) : b \in {IntV(1), IntV(2), Str(T_NA)},
                   h \in {IntV(13500), IntV(9999), IntV(16000), NaN}}

BbFrames == {<<r>> : r \in BbEdgeRows} \cup SeqUpTo(BbSeqRows, MaxBbRows)

InitSLEP == /\ pc = "step3b"
            /\ df_bb \in BbFrames
            /\ arg = None /\ out = None
            /\ df = <<>> /\ df_maf = <<>> /\ now = NaT /\ buno_i = 0 /\ loop = None
            /\ maf_546_events = <<>> /\ slep_events = <<>> /\ maf_546_projections = <<>>
            /\ future_df = <<>> /\ combined_df = <<>>

NextSLEP == AnalyzeBumblebeeSlepEvents

SpecSLEP == InitSLEP /\ [][NextSLEP]_vars

T_SLEP_1 == <<"S", "L", "E", "P", "_", "1">>
T_SLEP_2 == <<"S", "L", "E", "P", "_", "2">>
T_SLEP_3 == <<"S", "L", "E", "P", "_", "3">>
T_MAX_AIRCRAFT_LIFE ==
    <<"M", "A", "X", "_", "A", "I", "R", "C", "R", "A", "F", "T", "_", "L", "I", "F", "E">>

\* The days from the start date of an event to its finish date
Duration(e) == DayCount(e.FINISH_DATE.s) - DayCount(e.START_DATE.s)

\* The frame is one observation with an aircraft id and a number of hours
OneObservation == /\ Len(df_bb) = 1
                  /\ df_bb[1].BUNO.k = "int"
                  /\ df_bb[1].AI_Running_Total_Flight_Hours.k = "int"

\* C12: hours >= 16000 give MAX_AIRCRAFT_LIFE with 180 days, 14000..15999
\* SLEP_3, 12000..13999 SLEP_2, 10000..11999 SLEP_1, each with 90 days, and
\* hours below 10000 give no event.
C12_SlepClassification ==
    pc = "step4" =>
        /\ \A i \in 1..Len(slep_events) :
               LET e == slep_events[i]
                   h == e.AI_Flight_Hours.n
               IN /\ h >= 10000
                  /\ h >= 16000 => e.TASK.s = T_MAX_AIRCRAFT_LIFE /\ Duration(e) = 180
                  /\ (14000 <= h /\ h < 16000) => e.TASK.s = T_SLEP_3 /\ Duration(e) = 90
                  /\ (12000 <= h /\ h < 14000) => e.TASK.s = T_SLEP_2 /\ Duration(e) = 90
                  /\ (10000 <= h /\ h < 12000) => e.TASK.s = T_SLEP_1 /\ Duration(e) = 90
        /\ OneObservation =>
               /\ Len(slep_events) =
                      (IF df_bb[1].AI_Running_Total_Flight_Hours.n >= 10000 THEN 1 ELSE 0)
               /\ \A i \in 1..Len(slep_events) :
                      slep_events[i].AI_Flight_Hours = df_bb[1].AI_Running_Total_Flight_Hours

C12_Witness ==
    /\ pc = "step4" /\ OneObservation
    /\ df_bb[1].AI_Running_Total_Flight_Hours = IntV(12000)
    /\ Len(slep_events) = 1
    /\ slep_events[1].TASK.s = T_SLEP_2

\* C13: the k-th emitted SLEP event (k = 0, 1, ...) starts 14*k days after
\* 2020-07-01 and finishes its tier duration later; rows that emit no event
\* take no counter value.
C13_CounterOncePerEvent ==
    pc = "step4" =>
        \A i \in 1..Len(slep_events) :
            /\ DayCount(slep_events[i].START_DATE.s) = ToOrdinal(2020, 7, 1) + 14 * (i - 1)
            /\ Duration(slep_events[i]) =
                   (IF slep_events[i].TASK.s = T_MAX_AIRCRAFT_LIFE THEN 180 ELSE 90)

\* C14: at most one SLEP event per aircraft id.
C14_OneEventPerAircraft ==
    pc = "step4" =>
        \A i, j \in 1..Len(slep_events) :
            i # j => slep_events[i].BUNO # slep_events[j].BUNO

(***************************************************************************)
(* Specification Spec: run_processing from the loaded inputs (step 1) to   *)
(* the export of the files (step 14)                                       *)
(***************************************************************************)
T_546DAY == <<"5", "4", "6", "D", "A", "Y">>

RunDepotRows ==
    {DepotRow(IntV(1), s, NaT, Str(t), Str(<<"H", "S", "M">>), None) :
        s \in {D(2024, 3, 1), D(2046, 8, 31)},
        t \in { <<"P", "M", "I", "1">>, T_546DAY }}

\* A sheet that brings its own FY and QTR columns, filled on some rows only
RunFiscalFrame ==
    << [c \in DOMAIN DepotRow(None, None, None, None, None, None) \cup {"FY", "QTR"} |->
           CASE c = "FY" -> FloatV(2024) [] c = "QTR" -> FloatV(2)
             [] OTHER -> DepotRow(IntV(1), D(2024, 3, 1), NaT, Str(<<"P", "M", "I", "1">>),
                                  Str(<<"H", "S", "M">>), None)[c]],
       [c \in DOMAIN DepotRow(None, None, None, None, None, None) \cup {"FY", "QTR"} |->
           CASE c = "FY" -> NaN [] c = "QTR" -> NaN
             [] OTHER -> DepotRow(IntV(1), D(2046, 8, 31), NaT, Str(<<"P", "M", "I", "2">>),
                                  Str(<<"H", "S", "M">>), None)[c]] >>

RunDepotFrames == {<<>>} \cup {<<r>> : r \in RunDepotRows}
                    \cup {<<r1, r2>> : r1 \in RunDepotRows, r2 \in RunDepotRows}
                    \cup {RunFiscalFrame}

RunMafRows ==
    {MafRow(IntV(b), Str(WUC_546), Str(WC_20), Str(reason), NaN, rd, NaN, NaN, NaN) :
        b \in {1, 2}, reason \in {T_546_DAY, T_PHASE}, rd \in {NaN, Str(T_2024_03_01)}}

RunMafFrames == {<<>>} \cup {<<r>> : r \in RunMafRows}
                  \cup {<<r, r>> : r \in RunMafRows}

RunBbFrames == { <<>>,
                 <<BbRow(IntV(1), IntV(13500))>>,
                 <<BbRow(IntV(1), IntV(9999))>>,
                 <<BbRow(IntV(2), IntV(16000)), BbRow(IntV(1), IntV(12000))>>,
                 <<BbRow(NaN, FloatV(16000)), BbRow(FloatV(1), NaN)>> }

RunAnchors == {D(2051, 1, 1), D(2052, 8, 1)}

\* The sheet of a depot frame as the file holds it, before lines 962-963
Sheet(frame) ==
    [i \in 1..Len(frame) |-> [c \in DOMAIN frame[i] \ {"data_source"} |-> frame[i][c]]]

AllFiles == {"depot", "maf", "bb"}

\* A run whose three inputs are well formed
GoodDepot == << [BUNO |-> IntV(1), START_DATE |-> D(2024, 3, 1), FINISH_DATE |-> NaT,
                 TASK |-> Str(<<"P", "M", "I", "1">>), SQD |-> Str(<<"H", "S", "M">>)] >>
GoodMaf == << MafRow(IntV(1), Str(WUC_546), Str(WC_20), Str(T_546_DAY),
                     NaN, Str(T_2024_03_01), NaN, NaN, NaN) >>
GoodBb == << BbRow(IntV(2), IntV(13500)) >>

\* The row without the column
Without(row, col) == [c \in DOMAIN row \ {col} |-> row[c]]

\* Depot inputs with a defect: no file, no TASK column, a start date that is
\* no date next to a good record; and a start date given as text
DefectDepots ==
    { [files |-> AllFiles \ {"depot"}, sheet |-> <<>>],
      [files |-> AllFiles, sheet |-> <<Without(GoodDepot[1], "TASK")>>],
      [files |-> AllFiles,
       sheet |-> GoodDepot \o <<[GoodDepot[1] EXCEPT !.START_DATE = Str(T_NA)]>>],
      [files |-> AllFiles,
       sheet |-> <<[GoodDepot[1] EXCEPT !.START_DATE = Str(T_2024_10_15)]>>] }

\* MAF inputs with a defect: no file, or one of the four analysis columns gone
DefectMafs ==
    { [files |-> AllFiles \ {"maf"}, sheet |-> <<>>] }
      \cup { [files |-> AllFiles, sheet |-> <<Without(GoodMaf[1], col)>>] :
               col \in {"Buno", "WUC", "Work_Center", "System_Reason_Description"} }

\* Flight-hour inputs: no file, no hours column, no aircraft column; and an
\* aircraft column under the name Buno
DefectBbs ==
    { [files |-> AllFiles \ {"bb"}, sheet |-> <<>>],
      [files |-> AllFiles, sheet |-> <<[BUNO |-> IntV(2)]>>],
      [files |-> AllFiles, sheet |-> <<[AI_Running_Total_Flight_Hours |-> IntV(13500)]>>],
      [files |-> AllFiles,
       sheet |-> <<[Buno |-> IntV(2), AI_Running_Total_Flight_Hours |-> IntV(13500)]>>] }

\* The runs in which one input has a defect and the other two are good, and
\* the run in which all three are good
DegradedRuns ==
    {[files |-> x.files, depot |-> x.sheet, maf |-> GoodMaf, bb |-> GoodBb] : x \in DefectDepots}
      \cup {[files |-> x.files, depot |-> GoodDepot, maf |-> x.sheet, bb |-> GoodBb] :
              x \in DefectMafs}
      \cup {[files |-> x.files, depot |-> GoodDepot, maf |-> GoodMaf, bb |-> x.sheet] :
              x \in DefectBbs}
      \cup {[files |-> AllFiles, depot |-> GoodDepot, maf |-> GoodMaf, bb |-> GoodBb]}

\* The state at the start of run_processing, but for the inputs
Started == /\ pc = "step1"
           /\ now \in RunAnchors
           /\ out = {} /\ buno_i = 0 /\ loop = None
           /\ maf_546_events = <<>> /\ slep_events = <<>> /\ maf_546_projections = <<>>
           /\ future_df = <<>> /\ combined_df = <<>>

Init == /\ \/ /\ arg = AllFiles
              /\ df \in {Sheet(f) : f \in RunDepotFrames}
              /\ df_maf \in RunMafFrames
              /\ df_bb \in RunBbFrames
           \/ \E x \in DegradedRuns :
                  arg = x.files /\ df = x.depot /\ df_maf = x.maf /\ df_bb = x.bb
        /\ Started

Next == \/ LoadDepot
        \/ LoadMaf
        \/ AnalyzeMaf546Events
        \/ LoadBumblebee
        \/ AnalyzeBumblebeeSlepEvents
        \/ GenerateMaf546Projections
        \/ ProcessDepotAmargDetection
        \/ EnterAircraft
        \/ PmiIterate
        \/ CreateFutureFrame
        \/ Harmonize
        \/ CalculateFiscal
        \/ AddKeys
        \/ Combine
        \/ CalculateDeltas
        \/ SortLedger
        \/ Export

Spec == Init /\ [][Next]_vars

\* C2: in the final combined ledger the identity keys are pairwise distinct
\* across all records of all five streams.
C2_KeysPairwiseDistinct ==
    pc = "done" =>
        \A i, j \in 1..Len(combined_df) :
            i # j => combined_df[i].BUNO_key # combined_df[j].BUNO_key

\* The records in the order of the concatenation of step 11
Arrivals == df \o future_df \o maf_546_events \o maf_546_projections \o slep_events

\* The place of a ledger record in that order: a stream's keys are distinct
ArrivalIndex(row) ==
    CHOOSE n \in 1..Len(Arrivals) : /\ Arrivals[n].data_source = row.data_source
                                    /\ Arrivals[n].BUNO_key = row.BUNO_key

\* Two ledger records are equal on both sort keys
SameSortKeys(a, b) == /\ NotNa(a.BUNO) /\ NotNa(b.BUNO) /\ a.BUNO.n = b.BUNO.n
                      /\ a.START_DATE = b.START_DATE

\* C16: the final ledger is ascending by aircraft id, within one aircraft id
\* ascending by start date, and records equal on both keep the order of the
\* concatenation.
C16_LedgerOrdered ==
    pc \in {"step14", "done"} =>
        \A i, j \in 1..Len(combined_df) :
            i < j =>
                LET a == combined_df[i]
                    b == combined_df[j]
                IN /\ (NotNa(a.BUNO) /\ NotNa(b.BUNO)) => a.BUNO.n <= b.BUNO.n
                   /\ (NotNa(a.BUNO) /\ NotNa(b.BUNO) /\ a.BUNO.n = b.BUNO.n
                         /\ a.START_DATE.k = "ts" /\ b.START_DATE.k = "ts")
                        => a.START_DATE.ord <= b.START_DATE.ord
                   /\ SameSortKeys(a, b) => ArrivalIndex(a) < ArrivalIndex(b)

\* A ledger the sort had to reorder, with a tie between two streams
C16_Witness ==
    /\ pc = "done"
    /\ df # <<>>
    /\ combined_df[1].data_source # "H60_IMP_Report"
    /\ \E i, j \in 1..Len(combined_df) :
           /\ i < j
           /\ SameSortKeys(combined_df[i], combined_df[j])
           /\ combined_df[i].data_source # combined_df[j].data_source

\* The start date of a record is a date
StartIsValid(row) ==
    \/ row.START_DATE.k = "ts"
    \/ row.START_DATE.k = "str" /\ TextIsDate(row.START_DATE.s)

\* Year and month of a valid start date
StartYear(row) == IF row.START_DATE.k = "ts" THEN Civil(row.START_DATE.ord).year
                  ELSE Num(row.START_DATE.s, 1, 4)
StartMonth(row) == IF row.START_DATE.k = "ts" THEN Civil(row.START_DATE.ord).month
                   ELSE Num(row.START_DATE.s, 6, 7)

\* Step 9 took the frame `before` to `after`: every record that lacked a fiscal
\* year or quarter and has a valid start date got the one of its start date
Backfilled(before, after) ==
    \A i \in 1..Len(before) :
        StartIsValid(before[i]) =>
            /\ IsNa(Get(before[i], "FY", None)) =>
                   /\ after[i].FY.k \in {"int", "float"}
                   /\ after[i].FY.n = (IF StartMonth(before[i]) >= 10
                                       THEN StartYear(before[i]) + 1
                                       ELSE StartYear(before[i]))
            /\ IsNa(Get(before[i], "QTR", None)) =>
                   /\ after[i].QTR.k \in {"int", "float"}
                   /\ after[i].QTR.n = (CASE StartMonth(before[i]) >= 10 -> 1
                                          [] StartMonth(before[i]) <= 3 -> 2
                                          [] StartMonth(before[i]) <= 6 -> 3
                                          [] OTHER -> 4)

\* C17: every record of every stream whose fiscal year or quarter is missing
\* and whose start date is valid leaves step 9 with the fiscal year and
\* quarter of its start date.
C17_BackfillEveryRecord ==
    [][pc = "step9" =>
          /\ Backfilled(df, df')
          /\ Backfilled(future_df, future_df')
          /\ Backfilled(maf_546_events, maf_546_events')
          /\ Backfilled(maf_546_projections, maf_546_projections')
          /\ Backfilled(slep_events, slep_events')]_vars

\* A required input is absent or lacks one of its required fields
RequiredInputDefect ==
    \/ "depot" \notin arg
    \/ "maf" \notin arg
    \/ \E i \in 1..Len(df) : \E c \in {"BUNO", "START_DATE", "TASK"} : c \notin DOMAIN df[i]
    \/ \E i \in 1..Len(df_maf) :
           \E c \in {"Buno", "WUC", "Work_Center", "System_Reason_Description"} :
               c \notin DOMAIN df_maf[i]

\* C18: when a required input is absent or lacks a required field, the run
\* halts before any output file is written.  (No step removes a column of a
\* frame, so the defect of the inputs is seen in every later state.)
C18_FatalInputHalts == RequiredInputDefect => out = {}

\* C19: when the required inputs are present no defective record stops the
\* run: it never leaves run_processing by an exit or an exception, so it goes
\* on to the export step.
C19_RecordDefectNeverAborts == ~RequiredInputDefect => pc \notin {"abort", "exit"}

\* The flight-hour input is absent or malformed
BbDegraded ==
    \/ "bb" \notin arg
    \/ \E i \in 1..Len(df_bb) : "AI_Running_Total_Flight_Hours" \notin DOMAIN df_bb[i]
    \/ df_bb # <<>> /\ \A i \in 1..Len(df_bb) : DOMAIN df_bb[i] \cap {"BUNO", "Buno"} = {}

\* The run is complete and holds nothing of the SLEP stream
DoneWithoutSlep ==
    /\ pc = "done"
    /\ slep_events = <<>>
    /\ Len(combined_df) = Len(df) + Len(future_df) + Len(maf_546_events)
                            + Len(maf_546_projections)
    /\ \A i \in 1..Len(combined_df) : combined_df[i].data_source # "BumbleBee"
    /\ "combined" \in out /\ "slep_analysis" \notin out
    /\ "future" \in out <=> future_df # <<>>
    /\ "maf_analysis" \in out <=> maf_546_events # <<>>
    /\ "maf_projection" \in out <=> maf_546_projections # <<>>

\* C20: when the flight-hour input is absent or malformed, the loader hands
\* over an empty frame; from then on the SLEP stage yields no events and the
\* run goes on to its end, where the ledger and the outputs are those of the
\* other four streams.
C20_DegradedFlightHours ==
    [][/\ (pc = "step3" /\ BbDegraded) => df_bb' = <<>>
       /\ (pc \notin {"step1", "step2a", "step2", "step3"} /\ df_bb = <<>>) =>
              /\ pc' \notin {"abort", "exit"}
              /\ slep_events' = <<>>
              /\ pc' = "done" => DoneWithoutSlep']_vars

C20_Witness ==
    /\ "bb" \notin arg
    /\ DoneWithoutSlep
    /\ df # <<>> /\ maf_546_events # <<>>
    /\ {"combined", "future", "maf_analysis"} \subseteq out

(***************************************************************************)
(* Specification SpecProj: steps 2 to 4 of run_processing for one MAF      *)
(* frame, no flight-hour file, and the instant of the run drawn from       *)
(* ProjAnchors.                                                            *)
(***************************************************************************)
ProjFrames == {<<>>} \cup {<<r>> : r \in MafPairRows}
                \cup {<<r1, r2>> : r1 \in MafPairRows, r2 \in MafPairRows}

\* pd.Timestamp.now(): long before the horizon, two and one steps before it,
\* 546 and 547 days before it, on it and after it
ProjAnchors == {D(2000, 1, 1), D(2049, 1, 1), D(2051, 7, 3), D(2051, 7, 4),
                D(2052, 12, 31), D(2053, 6, 1)}

InitProj == /\ pc = "step2"
            /\ df_maf \in ProjFrames
            /\ now \in ProjAnchors
            /\ arg = AllFiles \ {"bb"} /\ out = {}
            /\ df = <<>> /\ df_bb = <<>> /\ buno_i = 0 /\ loop = None
            /\ maf_546_events = <<>> /\ slep_events = <<>> /\ maf_546_projections = <<>>
            /\ future_df = <<>> /\ combined_df = <<>>

NextProj == \/ AnalyzeMaf546Events
            \/ LoadBumblebee
            \/ AnalyzeBumblebeeSlepEvents
            \/ GenerateMaf546Projections

SpecProj == InitProj /\ [][NextProj]_vars

\* The aircraft ids of the MAF frame
MafAircraft == {df_maf[i].Buno : i \in {j \in 1..Len(df_maf) : df_maf[j].Buno.k = "int"}}

\* The aircraft with a row that satisfies the three predicates
Anchored ==
    {df_maf[i].Buno : i \in {j \in 1..Len(df_maf) :
        /\ df_maf[j].Buno.k = "int"
        /\ CodeMatches(df_maf[j]) /\ CenterMatches(df_maf[j]) /\ ReasonMatches(df_maf[j])}}

\* The number of k >= 1 with a + 546 * k strictly before the horizon
StepsBeforeHorizon(a) == IF a + 546 < Horizon THEN (Horizon - 1 - a) \div 546 ELSE 0

\* C24: for each aircraft projected from the anchor a, the emitted starts are
\* exactly a + 546 * k days for k = 1, 2, ... while that day is strictly
\* before 2052-12-31 (none at the anchor, none on or after the horizon, none
\* at all when a + 546 days is on or after it), each finish is 21 days after
\* its start, and the projection step completes for every anchor.
C24_ProjectionDates ==
    pc = "step5" =>
        \A b \in Anchored :
            LET events == RowsOf(maf_546_projections, b)
            IN /\ Len(events) = StepsBeforeHorizon(now.ord)
               /\ \A k \in 1..Len(events) :
                     /\ DayCount(events[k].START_DATE.s) = now.ord + 546 * k
                     /\ DayCount(events[k].START_DATE.s) < Horizon
                     /\ DayCount(events[k].FINISH_DATE.s)
                            = DayCount(events[k].START_DATE.s) + 21

\* From 2049-01-01: 2050-07-01 and 2051-12-29, nothing in 2053
C24_Witness ==
    /\ pc = "step5"
    /\ Anchored = {IntV(1)}
    /\ now = D(2049, 1, 1)
    /\ Len(maf_546_projections) = 2
    /\ maf_546_projections[1].START_DATE
          = Str(<<"2", "0", "5", "0", "-", "0", "7", "-", "0", "1">>)
    /\ maf_546_projections[2].START_DATE
          = Str(<<"2", "0", "5", "1", "-", "1", "2", "-", "2", "9">>)
    /\ maf_546_projections[2].FINISH_DATE
          = Str(<<"2", "0", "5", "2", "-", "0", "1", "-", "1", "9">>)

\* The aircraft ids of the records of a frame
AircraftOf(frame) ==
    {frame[i].BUNO.n : i \in {j \in 1..Len(frame) : frame[j].BUNO.k \in {"int", "float"}}}

\* C25: when the anchor leaves room for a step before the horizon, the
\* aircraft that receive 546-day projections are exactly the aircraft with at
\* least one historical 546-day event in the output of analyze_maf_546_events.
C25_ProjectedIffHistorical ==
    (pc = "step5" /\ StepsBeforeHorizon(now.ord) > 0) =>
        AircraftOf(maf_546_projections) = AircraftOf(maf_546_events)

(***************************************************************************)
(* Conservation of records, under Spec                                     *)
(***************************************************************************)
\* What identifies a record from key assignment on: its stream and its key
\* (keys are distinct within a stream), with aircraft, task and fiscal period
Core(row) ==
    <<Get(row, "data_source", None), Get(row, "BUNO_key", None), Get(row, "BUNO", None),
      Get(row, "TASK", None), Get(row, "FY", None), Get(row, "QTR", None)>>

\* The records of a frame, each with its place in the frame
Records(frame) == {<<i, Core(frame[i])>> : i \in 1..Len(frame)}

\* The ledger holds the records of the five streams, each as often as the
\* streams hold it
Conserved ==
    LET ledger == Records(combined_df)
        streams == Records(Arrivals)
    IN /\ Len(combined_df) = Len(df) + Len(future_df) + Len(maf_546_events)
                               + Len(maf_546_projections) + Len(slep_events)
       /\ \A r \in streams :
              Cardinality({l \in ledger : l[2] = r[2]})
                = Cardinality({t \in streams : t[2] = r[2]})

\* C28: key assignment keeps the record count of each of the five streams
\* (as do the two steps before it), and from the combination on, through
\* delta computation and the final sort, the ledger holds every record of the
\* five streams exactly once, records with equal keys included.
C28_LedgerConservesRecords ==
    [][/\ pc \in {"step8", "step9", "step10"} =>
             /\ Len(df') = Len(df)
             /\ Len(future_df') = Len(future_df)
             /\ Len(maf_546_events') = Len(maf_546_events)
             /\ Len(maf_546_projections') = Len(maf_546_projections)
             /\ Len(slep_events') = Len(slep_events)
       /\ pc' \in {"step12", "step13", "step14", "done"} => Conserved']_vars

\* A finished run with records in all five streams and two records under
\* one key
C28_Witness ==
    /\ pc = "done"
    /\ df # <<>> /\ future_df # <<>> /\ maf_546_events # <<>>
    /\ maf_546_projections # <<>> /\ slep_events # <<>>
    /\ Conserved
    /\ \E i, j \in 1..Len(combined_df) :
           i # j /\ combined_df[i].BUNO_key = combined_df[j].BUNO_key

====
